---- MODULE Spec2Model ----
(***************************************************************************)
(* A model of shaman (jonknoxdotcom/shaman): the incremental update        *)
(* engine (upd), the tree walker that feeds it through a bounded queue,    *)
(* the record writer, the path encoding, and the detection service (det).  *)
(*                                                                         *)
(* Strings are sequences of byte values.  Files of the manifest kind are   *)
(* sequences of lines (a line is a string without its terminating LF).     *)
(*                                                                         *)
(* The specifications share the variables:                                 *)
(*   SpecUpdate  one run of "shaman update" beside its walker goroutine    *)
(*   SpecDetect  one run of "shaman detect": main goroutine, event worker  *)
(*               and HTTP handlers                                         *)
(*   SpecCodec   one record through the writer and the reader              *)
(*   SpecTools   one run of anonymise, consolidate, compare, duplicates    *)
(*               or of the top-K table                                     *)
(***************************************************************************)
EXTENDS Integers, Sequences, FiniteSets, TLC

VARIABLES
    \* ---- the scenario of an update run (fixed by Init)
    scen,          \* path -> what happened to it between generate and update
    fs,            \* the live tree: path -> [modified, size, content]
    junk,          \* the kind of line Mold starts with beside generate's
    manifest,      \* the lines of Mold
    num,           \* number of .ssf arguments (1 or 2)
    cli_overwrite, \* --overwrite
    cli_rehash,    \* --re-hash
    \* ---- the walker goroutine and its channel
    wtodo,         \* the entries the walker has still to send, in its order
    wsent,         \* the file names the walker has put on fileQueue, in order
    fileQueue,     \* the channel's buffer
    qclosed,       \* close(fileQueue) has run
    \* ---- upd
    pc,            \* position of upd
    mpos,          \* lines of Mold the scanner has delivered
    ssf,           \* fields of the current manifest record
    trip,          \* the current triplex (trip_name, trip_modt, trip_size)
    cnt,           \* nnew, nchg, ndel, nunc
    out,           \* lines written to the writer w
    tags,          \* the writeRecord calls made: <<tag, name, flags>>, and
                   \* <<"panic", name, "">> for the hashing that panicked
    disk,          \* the manifest files: slot -> "none", "empty", "old" (the
                   \* lines of Mold) or "new" (the lines upd wrote)
    fsops,         \* file operations made on the manifest files
    exitCode,      \* the process's exit code, -1 while it runs
    \* ---- det
    det,           \* the detector's state (a record, see InitDetect)
    \* ---- the path encoding and the record format on their own
    codec,         \* a record on its way through writer and reader (see InitCodec)
    \* ---- the batch commands over manifests (ano, con, com, dup) and the top-K table
    tool           \* one run of a batch command (a record, see InitTools)

vars == <<scen, fs, junk, manifest, num, cli_overwrite, cli_rehash, wtodo, wsent, fileQueue,
          qclosed, pc, mpos, ssf, trip, cnt, out, tags, disk, fsops, exitCode, det, codec, tool>>

\* all but codec and tool
restVars == <<scen, fs, junk, manifest, num, cli_overwrite, cli_rehash, wtodo, wsent, fileQueue,
              qclosed, pc, mpos, ssf, trip, cnt, out, tags, disk, fsops, exitCode, det>>

\* all but det
updVars == <<scen, fs, junk, manifest, num, cli_overwrite, cli_rehash, wtodo, wsent, fileQueue,
             qclosed, pc, mpos, ssf, trip, cnt, out, tags, disk, fsops, exitCode, codec, tool>>

(***************************************************************************)
(* Bounds of the model                                                     *)
(***************************************************************************)
\* the most files that exist in the old or the live tree of a scenario
MaxFiles == 3
\* the most files of a scenario whose manifest starts with a line generate did not write
MaxJunkFiles == 1

(***************************************************************************)
(* Program constants                                                       *)
(***************************************************************************)
\* make(chan triplex, 4096): the capacity of a walker's queue, scaled to the
\* trees of the model so that a walker can find its queue full
QueueCap == 2
\* s[0:43], the truncated Base64 of a SHA-256
ShaLen == 43
\* s[43:51], the end of the modtime field
ModEnd == 51
\* pos < 55: the least offset of the space that ends the size field
MinPos == 55

(***************************************************************************)
(* Strings                                                                 *)
(***************************************************************************)
Min(a, b) == IF a < b THEN a ELSE b

\* Go's s < t on strings: byte-wise, a proper prefix is smaller
Less(s, t) ==
    \E k \in 0..Min(Len(s), Len(t)) :
        /\ \A i \in 1..k : s[i] = t[i]
        /\ \/ k = Len(s) /\ k < Len(t)
           \/ k < Len(s) /\ k < Len(t) /\ s[k+1] < t[k+1]

\* s[from:] with Go's 0-based offset
From(s, from) == SubSeq(s, from + 1, Len(s))

\* s[from:to] with Go's 0-based offsets
Slice(s, from, to) == SubSeq(s, from + 1, to)

\* strings.IndexByte(s, c)
IndexByte(s, c) ==
    IF \E i \in 1..Len(s) : s[i] = c
    THEN (CHOOSE i \in 1..Len(s) : s[i] = c /\ \A j \in 1..(i-1) : s[j] # c) - 1
    ELSE -1

RECURSIVE ReplaceAll(_, _, _)
\* strings.Replace(s, old, new, -1): non-overlapping, left to right
ReplaceAll(s, old, new) ==
    IF Len(s) < Len(old) THEN s
    ELSE IF SubSeq(s, 1, Len(old)) = old
         THEN new \o ReplaceAll(From(s, Len(old)), old, new)
         ELSE <<Head(s)>> \o ReplaceAll(Tail(s), old, new)

HexDigit(d) == IF d < 10 THEN 48 + d ELSE 87 + d

RECURSIVE HexDigits(_)
\* fmt.Sprintf("%x", n)
HexDigits(n) ==
    IF n < 16 THEN <<HexDigit(n)>>
    ELSE HexDigits(n \div 16) \o <<HexDigit(n % 16)>>

\* fmt.Sprintf("%0wx", n)
HexPad(n, w) ==
    LET h == HexDigits(n)
    IN  IF Len(h) >= w THEN h ELSE [i \in 1..(w - Len(h)) |-> 48] \o h

RECURSIVE SplitLF(_)
\* the lines a scanner reads back from text written with Fprintln
SplitLF(s) ==
    LET p == IndexByte(s, 10)
    IN  IF p = -1 THEN <<s>> ELSE <<Slice(s, 0, p)>> \o SplitLF(From(s, p + 1))

RECURSIVE storeLine(_)
\* storeLine: ranges over the runes of s; a byte that starts no valid UTF-8
\* sequence decodes to U+FFFD (the model's alphabet has no 3- or 4-byte runes)
storeLine(s) ==
    IF s = <<>> THEN <<>>
    ELSE LET b == Head(s)
             two == /\ b >= 194 /\ b <= 223 /\ Len(s) >= 2
                    /\ s[2] >= 128 /\ s[2] <= 191
         IN  IF b < 32 THEN <<92, 120>> \o HexPad(b, 2) \o storeLine(Tail(s))
             ELSE IF b = 92 THEN <<92, 92>> \o storeLine(Tail(s))
             ELSE IF b < 128 THEN <<b>> \o storeLine(Tail(s))
             ELSE IF two THEN <<b, s[2]>> \o storeLine(Tail(Tail(s)))
             ELSE <<239, 191, 189>> \o storeLine(Tail(s))

\* restoreLine: four replacements, one after the other
restoreLine(s) ==
    LET s1 == ReplaceAll(s,  <<92, 120, 48, 97>>, <<10>>)
        s2 == ReplaceAll(s1, <<92, 120, 48, 99>>, <<12>>)
        s3 == ReplaceAll(s2, <<92, 120, 48, 100>>, <<13>>)
    IN  ReplaceAll(s3, <<92, 92>>, <<92>>)

(***************************************************************************)
(* The trees of the scenarios                                              *)
(***************************************************************************)
\* "a/x": a file in the directory a
P_ax == <<97, 47, 120>>
\* "a.t": a sibling of the directory a; "a.t" < "a/x" as strings
P_at == <<97, 46, 116>>
\* "b"
P_b == <<98>>
\* "c<TAB>": a name with a control byte
P_ctab == <<99, 9>>
\* "d"
P_d == <<100>>

\* "c0": a name that follows "c<TAB>" in byte order
P_c0 == <<99, 48>>
UPaths == {P_ax, P_at, P_b, P_ctab, P_c0, P_d}

Statuses == {"absent", "same", "new", "deleted", "touched", "edited", "locked", "lockednew"}

\* the scenarios: "b" alone may have been edited in place (same size and
\* modtime), "d" alone may be a file that cannot be opened (one that Mold
\* records, "locked", or a new one, "lockednew"), and
\* "c0" is an unchanged file met in the company of "c<TAB>" at most
Scenarios ==
    {sc \in [UPaths -> Statuses] :
        /\ \A p \in UPaths : (sc[p] = "edited" => p = P_b) /\ (sc[p] \in {"locked", "lockednew"} => p = P_d)
        /\ sc[P_c0] \in {"absent", "same"}
        /\ sc[P_c0] = "same" => \A p \in UPaths \ {P_c0, P_ctab} : sc[p] = "absent"}

\* a line of Mold beside those generate wrote: none, a comment ("#"), a
\* line that is no format-5 record (a bare hash, as an anonymised manifest
\* holds), or a record of "b" that comes before the others and may repeat
JunkKinds == {"none", "comment", "invalid", "repeated"}

\* the attributes of every file of the old tree
OldAttr == [modified |-> 1610612736, size |-> 5, content |-> 0]

InOld(st) == st \in {"same", "deleted", "touched", "edited", "locked"}
InLive(st) == st \in {"same", "new", "touched", "edited", "locked", "lockednew"}

LiveAttr(st) ==
    CASE st = "touched" -> [OldAttr EXCEPT !.modified = @ + 1]
      [] st = "edited"  -> [OldAttr EXCEPT !.content = 1]
      [] st \in {"locked", "lockednew"} -> [OldAttr EXCEPT !.content = -1]
      [] OTHER          -> OldAttr

\* the tree generate ran on, and the tree update runs on
OldTree(sc) == [p \in {q \in UPaths : InOld(sc[q])} |-> OldAttr]
LiveTree(sc) == [p \in {q \in UPaths : InLive(sc[q])} |-> LiveAttr(sc[p])]

(***************************************************************************)
(* Hashing                                                                 *)
(***************************************************************************)
\* the 43 characters of a content's hash: one letter per content, repeated
HashB64(content) == [i \in 1..ShaLen |-> 65 + content]

\* getFileSha256(name): the Base64 form
getFileSha256(tree, name) == HashB64(tree[name].content)

\* getFileSha256 on a file that cannot be opened (content -1): the return
\* statement converts the nil slice with binsha(binarySHASlice), and the
\* conversion of a slice shorter than 32 bytes to [32]byte panics
HashPanics(tree, name) == tree[name].content < 0

(***************************************************************************)
(* The walker                                                              *)
(***************************************************************************)
RECURSIVE SortNames(_)
\* os.ReadDir returns the entries sorted by filename
SortNames(S) ==
    IF S = {} THEN <<>>
    ELSE LET m == CHOOSE x \in S : \A y \in S : x = y \/ Less(x, y)
         IN  <<m>> \o SortNames(S \ {m})

\* path.Join(dir, name), the start path "." written as the empty string
Join(dir, name) == IF dir = <<>> THEN name ELSE dir \o <<47>> \o name

\* the paths of the tree below dir, as offsets into them
Below(tree, dir) ==
    IF dir = <<>> THEN DOMAIN tree
    ELSE {p \in DOMAIN tree : Len(p) > Len(dir) + 1
                              /\ SubSeq(p, 1, Len(dir)) = dir /\ p[Len(dir) + 1] = 47}

\* the first component of p below dir
Component(p, dir) ==
    LET rest == IF dir = <<>> THEN p ELSE From(p, Len(dir) + 1)
        k == IndexByte(rest, 47)
    IN  IF k = -1 THEN rest ELSE Slice(rest, 0, k)

\* os.ReadDir(dir)
ReadDir(tree, dir) == SortNames({Component(p, dir) : p \in Below(tree, dir)})

RECURSIVE walkEntries(_, _, _)
RECURSIVE walkTreeToChannel(_, _)
\* the entries walkTreeToChannel sends, in the order it sends them
walkTreeToChannel(tree, startpath) == walkEntries(tree, startpath, ReadDir(tree, startpath))

walkEntries(tree, dir, entries) ==
    IF entries = <<>> THEN <<>>
    ELSE LET name == Join(dir, Head(entries))
             here == IF name \in DOMAIN tree
                     THEN <<[filename |-> name, modified |-> tree[name].modified,
                             size |-> tree[name].size]>>
                     ELSE walkTreeToChannel(tree, name)
         IN  here \o walkEntries(tree, dir, Tail(entries))

(***************************************************************************)
(* generate                                                                *)
(***************************************************************************)
RECURSIVE genLines(_, _)
\* gen: one Fprintln per entry of the queue, the name written as it is
genLines(tree, entries) ==
    IF entries = <<>> THEN <<>>
    ELSE LET e == Head(entries)
             outbuf == getFileSha256(tree, e.filename) \o HexDigits(e.modified)
                       \o HexPad(e.size, 4) \o <<32, 58>> \o e.filename
         IN  SplitLF(outbuf) \o genLines(tree, Tail(entries))

gen(tree) == genLines(tree, walkTreeToChannel(tree, <<>>))

JunkLines(kind) ==
    CASE kind = "comment" -> <<<<35>>>>
      [] kind = "invalid" -> <<HashB64(0)>>
      [] kind = "repeated" -> gen(P_b :> OldAttr)
      [] OTHER            -> <<>>

(***************************************************************************)
(* The record writer                                                       *)
(***************************************************************************)
\* writeInit: the counters at zero
ZeroCnt == [nnew |-> 0, nchg |-> 0, ndel |-> 0, nunc |-> 0]

\* writeRecord's switch on tag: the counter a tag bumps
Count(c, tag) ==
    CASE tag = "N" -> [c EXCEPT !.nnew = @ + 1]
      [] tag = "C" -> [c EXCEPT !.nchg = @ + 1]
      [] tag = "D" -> [c EXCEPT !.ndel = @ + 1]
      [] OTHER     -> [c EXCEPT !.nunc = @ + 1]

\* writeRecord's switch on format (1..5), name already passed through storeLine
FormatLine(format, shab64, modt, size, name) ==
    CASE format = 1 -> shab64
      [] format = 2 -> shab64 \o modt
      [] format = 3 -> shab64 \o modt \o size
      [] OTHER      -> shab64 \o modt \o size \o <<32, 58>> \o name

\* writeRecord on the writer state w = [cnt, out, tags]
writeRecord(w, amWriting, format, tag, shab64, modt, size, name, flags) ==
    LET lazy == shab64 = <<>> /\ amWriting /\ tag # "D"
        sha == IF lazy THEN getFileSha256(fs, name) ELSE shab64
    IN  IF lazy /\ HashPanics(fs, name)
        THEN [cnt  |-> Count(w.cnt, tag),
              tags |-> Append(w.tags, <<"panic", name, <<>>>>),
              out  |-> w.out]
        ELSE [cnt  |-> Count(w.cnt, tag),
              tags |-> Append(w.tags, <<tag, name, flags>>),
              out  |-> IF amWriting /\ tag # "D"
                       THEN Append(w.out, FormatLine(format, sha, modt, size, storeLine(name)))
                       ELSE w.out]

(***************************************************************************)
(* The walker goroutine of an update run                                   *)
(***************************************************************************)
\* go func() { defer close(fileQueue); walk(startpath, fileQueue) }(): the
\* entries the walk of the live tree sends
WalkOrder == walkTreeToChannel(fs, <<>>)

\* c <- triplex{name, modtime, size}: blocks while the buffer is full
WalkSend ==
    /\ pc \notin {"start", "done"}
    /\ wtodo # <<>>
    /\ Len(fileQueue) < QueueCap
    /\ fileQueue' = Append(fileQueue, Head(wtodo))
    /\ wtodo' = Tail(wtodo)
    /\ wsent' = Append(wsent, Head(wtodo).filename)
    /\ UNCHANGED <<tool, codec, scen, fs, junk, manifest, num, cli_overwrite, cli_rehash, qclosed, pc,
                   mpos, ssf, trip, cnt, out, tags, disk, fsops, exitCode, det>>

\* the deferred close(fileQueue)
WalkClose ==
    /\ pc \notin {"start", "done"}
    /\ wtodo = <<>>
    /\ ~qclosed
    /\ qclosed' = TRUE
    /\ UNCHANGED <<tool, codec, scen, fs, junk, manifest, num, cli_overwrite, cli_rehash, wtodo, wsent, fileQueue,
                   pc, mpos, ssf, trip, cnt, out, tags, disk, fsops, exitCode, det>>

(***************************************************************************)
(* upd                                                                     *)
(***************************************************************************)
EmptyTrip == [name |-> <<>>, modt |-> <<>>, size |-> <<>>]
EmptySsf == [name |-> <<>>, modtime |-> <<>>, length |-> <<>>, shab64 |-> <<>>]

\* getNextTriplex's conversion of a received entry
TripOf(t) == [name |-> t.filename, modt |-> HexPad(t.modified, 8), size |-> HexPad(t.size, 4)]

\* a receive that does not wait for the walker
CanRecv_withoutWaiting == TRUE

\* t, ok := <-fileQueue can proceed
CanRecv == fileQueue # <<>> \/ qclosed

\* getNextTriplex's result
Recvd == IF fileQueue # <<>> THEN TripOf(Head(fileQueue)) ELSE EmptyTrip

Dequeue == fileQueue' = IF fileQueue # <<>> THEN Tail(fileQueue) ELSE fileQueue

\* where upd writes: "" (dry run), the temporary file, or the second manifest
Fnw == IF num = 1 THEN (IF cli_overwrite THEN "temp" ELSE "") ELSE "second"

AmWriting == Fnw # ""

\* form: cli_format is 0 in every run of the model
Form == 5

\* a count of the changes that leaves the deleted records out
nchanges_withoutDeleted(c) == c.nnew + c.nchg

\* nchanges := nnew + ndel + nchg
nchanges(c) == c.nnew + c.ndel + c.nchg

WriterState == [cnt |-> cnt, out |-> out, tags |-> tags]

SetWriter(w) == cnt' = w.cnt /\ out' = w.out /\ tags' = w.tags

\* a run-time panic has been raised in upd's goroutine: no statement of upd
\* runs after it
Panicked == tags # <<>> /\ tags[Len(tags)][1] = "panic"

\* the flags of a record that is hashed again
ChangeFlags(s, t, sha) ==
    (IF s.modtime # t.modt THEN <<84>> ELSE <<>>)
    \o (IF s.length # t.size THEN <<83>> ELSE <<>>)
    \o (IF s.shab64 # sha THEN <<72>> ELSE <<>>)

\* step 3/5 of the loop body: the record written for a name in both streams
Classify(w, s, t) ==
    IF s.modtime = t.modt /\ s.length = t.size /\ ~cli_rehash
    THEN writeRecord(w, AmWriting, Form, "U", s.shab64, t.modt, t.size, s.name, <<>>)
    ELSE IF HashPanics(fs, s.name)
    THEN [w EXCEPT !.tags = Append(@, <<"panic", s.name, <<>>>>)]
    ELSE LET sha == getFileSha256(fs, s.name)
             flag == ChangeFlags(s, t, sha)
         IN  writeRecord(w, AmWriting, Form, IF flag # <<>> THEN "C" ELSE "V",
                         sha, t.modt, t.size, s.name, flag)

\* steps 3/5 and 4/5 of the loop body, reached with triplex t and record s
AfterInner(w, s, t) ==
    IF t.name = s.name
    THEN /\ SetWriter(Classify(w, s, t))
         /\ trip' = [t EXCEPT !.name = <<>>]
         /\ pc' = "recv1064"
    ELSE /\ SetWriter(IF s.name # <<>> /\ Less(s.name, t.name)
                      THEN writeRecord(w, AmWriting, Form, "D", <<>>, <<>>, <<>>, s.name, <<>>)
                      ELSE w)
         /\ trip' = t
         /\ pc' = "scan"

\* the CLI checks, the open of Mold, writeInit(fnw) and the start of the walker
UpdStart ==
    /\ pc = "start"
    /\ cnt' = ZeroCnt
    /\ IF Fnw # ""
       THEN /\ disk' = [disk EXCEPT ![Fnw] = "empty"]
            /\ fsops' = Append(fsops, <<"create", Fnw>>)
       ELSE UNCHANGED <<disk, fsops>>
    /\ pc' = "recv986"
    /\ UNCHANGED <<tool, codec, scen, fs, junk, manifest, num, cli_overwrite, cli_rehash, wtodo, wsent, fileQueue,
                   qclosed, mpos, ssf, trip, out, tags, exitCode, det>>

\* trip_name, trip_modt, trip_size := getNextTriplex(fileQueue) before the loop
UpdRecvFirst ==
    /\ pc = "recv986" /\ ~Panicked
    /\ CanRecv
    /\ trip' = Recvd
    /\ Dequeue
    /\ pc' = "scan"
    /\ UNCHANGED <<tool, codec, scen, fs, junk, manifest, num, cli_overwrite, cli_rehash, wtodo, wsent, qclosed,
                   mpos, ssf, cnt, out, tags, disk, fsops, exitCode, det>>

\* the fields of a record line: s[0:43], s[43:51], s[51:pos], restoreLine(s[pos+2:])
ParseLine(s, pos) ==
    [shab64  |-> Slice(s, 0, ShaLen),
     modtime |-> Slice(s, ShaLen, ModEnd),
     length  |-> Slice(s, ModEnd, pos),
     name    |-> restoreLine(From(s, pos + 2))]

\* one pass of "for scanner.Scan()" up to its next receive, or the loop's end
UpdScan ==
    /\ pc = "scan" /\ ~Panicked
    /\ IF mpos = Len(manifest)
       THEN /\ pc' = "tail1077"
            /\ UNCHANGED <<mpos, ssf, trip, cnt, out, tags>>
       ELSE LET s == manifest[mpos + 1]
                pos == IndexByte(s, 32)
            IN  /\ mpos' = mpos + 1
                /\ IF Len(s) = 0 \/ s[1] = 35
                   THEN UNCHANGED <<pc, ssf, trip, cnt, out, tags>>
                   ELSE IF pos = -1 \/ pos < MinPos
                   THEN /\ cnt' = [cnt EXCEPT !.ndel = @ + 1]
                        /\ UNCHANGED <<pc, ssf, trip, out, tags>>
                   ELSE LET rec == ParseLine(s, pos)
                        IN  /\ ssf' = rec
                            /\ IF trip.name = <<>>
                               THEN /\ pc' = "tail1077"
                                    /\ UNCHANGED <<trip, cnt, out, tags>>
                               ELSE IF Less(trip.name, rec.name)
                               THEN /\ SetWriter(writeRecord(WriterState, AmWriting, Form, "N",
                                                 <<>>, trip.modt, trip.size, trip.name, <<>>))
                                    /\ pc' = "recv1026"
                                    /\ UNCHANGED trip
                               ELSE AfterInner(WriterState, rec, trip)
    /\ UNCHANGED <<tool, codec, scen, fs, junk, manifest, num, cli_overwrite, cli_rehash, wtodo, wsent, fileQueue,
                   qclosed, disk, fsops, exitCode, det>>

\* the receive inside "for trip_name < ssf_name" and what follows it
UpdRecvInner ==
    /\ pc = "recv1026" /\ ~Panicked
    /\ CanRecv
    /\ Dequeue
    /\ LET t == Recvd
       IN  IF t.name # <<>> /\ Less(t.name, ssf.name)
           THEN /\ SetWriter(writeRecord(WriterState, AmWriting, Form, "N",
                             <<>>, t.modt, t.size, t.name, <<>>))
                /\ trip' = t
                /\ UNCHANGED pc
           ELSE AfterInner(WriterState, ssf, t)
    /\ UNCHANGED <<tool, codec, scen, fs, junk, manifest, num, cli_overwrite, cli_rehash, wtodo, wsent, qclosed,
                   mpos, ssf, disk, fsops, exitCode, det>>

\* the receive after a name found in both streams, then "continue"
UpdRecvMatch ==
    /\ pc = "recv1064" /\ ~Panicked
    /\ CanRecv
    /\ trip' = Recvd
    /\ Dequeue
    /\ pc' = "scan"
    /\ UNCHANGED <<tool, codec, scen, fs, junk, manifest, num, cli_overwrite, cli_rehash, wtodo, wsent, qclosed,
                   mpos, ssf, cnt, out, tags, disk, fsops, exitCode, det>>

\* a step 5 that always fetches the next entry, the pending one included
UpdTail_alwaysReceives ==
    /\ pc = "tail1077" /\ ~Panicked
    /\ CanRecv /\ trip' = Recvd /\ Dequeue
    /\ pc' = "tail1082"
    /\ UNCHANGED <<tool, codec, scen, fs, junk, manifest, num, cli_overwrite, cli_rehash, wtodo, wsent, qclosed,
                   mpos, ssf, cnt, out, tags, disk, fsops, exitCode, det>>

\* step 5/5: "if trip_name == "" { getNextTriplex }"
UpdTail ==
    /\ pc = "tail1077" /\ ~Panicked
    /\ IF trip.name = <<>>
       THEN CanRecv /\ trip' = Recvd /\ Dequeue
       ELSE UNCHANGED <<trip, fileQueue>>
    /\ pc' = "tail1082"
    /\ UNCHANGED <<tool, codec, scen, fs, junk, manifest, num, cli_overwrite, cli_rehash, wtodo, wsent, qclosed,
                   mpos, ssf, cnt, out, tags, disk, fsops, exitCode, det>>

\* "for trip_name != """: the record of a live entry left over
UpdTailWrite ==
    /\ pc = "tail1082" /\ ~Panicked
    /\ IF trip.name # <<>>
       THEN /\ SetWriter(writeRecord(WriterState, AmWriting, Form, "N",
                         <<>>, trip.modt, trip.size, trip.name, <<>>))
            /\ pc' = "recv1085"
       ELSE /\ pc' = "report"
            /\ UNCHANGED <<cnt, out, tags>>
    /\ UNCHANGED <<tool, codec, scen, fs, junk, manifest, num, cli_overwrite, cli_rehash, wtodo, wsent, fileQueue,
                   qclosed, mpos, ssf, trip, disk, fsops, exitCode, det>>

\* the receive that ends the body of "for trip_name != """
UpdRecvTail ==
    /\ pc = "recv1085" /\ ~Panicked
    /\ CanRecv
    /\ trip' = Recvd
    /\ Dequeue
    /\ pc' = "tail1082"
    /\ UNCHANGED <<tool, codec, scen, fs, junk, manifest, num, cli_overwrite, cli_rehash, wtodo, wsent, qclosed,
                   mpos, ssf, cnt, out, tags, disk, fsops, exitCode, det>>

\* the panic is not recovered: the process ends with exit code 2, the writer's
\* buffer is not flushed and no file operation follows
UpdPanic ==
    /\ Panicked /\ pc # "done"
    /\ pc' = "done"
    /\ exitCode' = 2
    /\ UNCHANGED <<tool, codec, scen, fs, junk, manifest, num, cli_overwrite, cli_rehash, wtodo, wsent, fileQueue,
                   qclosed, mpos, ssf, trip, cnt, out, tags, disk, fsops, det>>

\* what follows w.Flush(): the statement upd goes to, or the exit code it ends with
AfterFlush(writing, overwrite, n) ==
    IF writing /\ overwrite
    THEN (IF n = 0 THEN "rmtemp" ELSE "rmold")
    ELSE "exit0"

\* the report of the changes, w.Flush(), and the branch on cli_overwrite
UpdReport ==
    /\ pc = "report" /\ ~Panicked
    /\ IF AmWriting
       THEN /\ disk' = [disk EXCEPT ![Fnw] = "new"]
            /\ fsops' = Append(fsops, <<"write", Fnw>>)
       ELSE UNCHANGED <<disk, fsops>>
    /\ LET next == AfterFlush(AmWriting, cli_overwrite, nchanges(cnt))
       IN  IF next = "exit0"
           THEN pc' = "done" /\ exitCode' = 0
           ELSE pc' = next /\ UNCHANGED exitCode
    /\ UNCHANGED <<tool, codec, scen, fs, junk, manifest, num, cli_overwrite, cli_rehash, wtodo, wsent, fileQueue,
                   qclosed, mpos, ssf, trip, cnt, out, tags, det>>

\* nchanges == 0: os.Remove(fnw), then os.Exit(0)
UpdRemoveTemp ==
    /\ pc = "rmtemp" /\ ~Panicked
    /\ disk' = [disk EXCEPT ![Fnw] = "none"]
    /\ fsops' = Append(fsops, <<"remove", Fnw>>)
    /\ pc' = "done"
    /\ exitCode' = 0
    /\ UNCHANGED <<tool, codec, scen, fs, junk, manifest, num, cli_overwrite, cli_rehash, wtodo, wsent, fileQueue,
                   qclosed, mpos, ssf, trip, cnt, out, tags, det>>

\* nchanges > 0: os.Remove(fnr)
UpdRemoveOld ==
    /\ pc = "rmold" /\ ~Panicked
    /\ disk' = [disk EXCEPT !["old"] = "none"]
    /\ fsops' = Append(fsops, <<"remove", "old">>)
    /\ pc' = "rename"
    /\ UNCHANGED <<tool, codec, scen, fs, junk, manifest, num, cli_overwrite, cli_rehash, wtodo, wsent, fileQueue,
                   qclosed, mpos, ssf, trip, cnt, out, tags, exitCode, det>>

\* os.Rename(fnw, fnr), then os.Exit(1)
UpdRename ==
    /\ pc = "rename" /\ ~Panicked
    /\ disk' = [disk EXCEPT !["old"] = disk[Fnw], ![Fnw] = "none"]
    /\ fsops' = Append(fsops, <<"rename", Fnw>>)
    /\ pc' = "done"
    /\ exitCode' = 1
    /\ UNCHANGED <<tool, codec, scen, fs, junk, manifest, num, cli_overwrite, cli_rehash, wtodo, wsent, fileQueue,
                   qclosed, mpos, ssf, trip, cnt, out, tags, det>>

(***************************************************************************)
(* The update specification                                                *)
(***************************************************************************)
\* the detector at rest, its value in every state of an update run
DetIdle == [phase |-> "off"]

\* no record is on its way through writer and reader
CodecIdle == [pc |-> "off"]

\* no batch command runs in this specification
ToolIdle == [cmd |-> "off"]

InitRun(scenarios) ==
    /\ scen \in scenarios
    /\ Cardinality({p \in UPaths : scen[p] # "absent"}) <= MaxFiles
    /\ junk \in JunkKinds
    /\ junk # "none" => Cardinality({p \in UPaths : scen[p] # "absent"}) <= MaxJunkFiles
    /\ fs = LiveTree(scen)
    /\ manifest = JunkLines(junk) \o gen(OldTree(scen))
    /\ num \in {1, 2}
    /\ cli_overwrite \in BOOLEAN
    /\ cli_rehash \in BOOLEAN
    /\ wtodo = WalkOrder
    /\ wsent = <<>>
    /\ fileQueue = <<>>
    /\ qclosed = FALSE
    /\ pc = "start"
    /\ mpos = 0
    /\ ssf = EmptySsf
    /\ trip = EmptyTrip
    /\ cnt = ZeroCnt
    /\ out = <<>>
    /\ tags = <<>>
    /\ disk = [slot \in {"old", "temp", "second"} |-> IF slot = "old" THEN "old" ELSE "none"]
    /\ fsops = <<>>
    /\ exitCode = -1
    /\ det = DetIdle
    /\ codec = CodecIdle
    /\ tool = ToolIdle

\* update on a tree whose files can all be opened
InitUpdate == InitRun({sc \in Scenarios : sc[P_d] \notin {"locked", "lockednew"}})

\* update on a tree that holds a file that cannot be opened
InitUpdateFault == InitRun({sc \in Scenarios : sc[P_d] \in {"locked", "lockednew"}})

NextUpdate ==
    \/ WalkSend
    \/ WalkClose
    \/ UpdStart
    \/ UpdRecvFirst
    \/ UpdScan
    \/ UpdRecvInner
    \/ UpdRecvMatch
    \/ UpdTail
    \/ UpdTailWrite
    \/ UpdRecvTail
    \/ UpdReport
    \/ UpdRemoveTemp
    \/ UpdRemoveOld
    \/ UpdRename

SpecUpdate == InitUpdate /\ [][NextUpdate]_vars

NextUpdateFault == NextUpdate \/ UpdPanic

SpecUpdateFault == InitUpdateFault /\ [][NextUpdateFault]_vars

(***************************************************************************)
(* The detection service: hashes as the watch list holds them              *)
(***************************************************************************)
\* the value of a character of the standard Base64 alphabet, -1 outside it
B64Value(c) ==
    IF c >= 65 /\ c <= 90 THEN c - 65
    ELSE IF c >= 97 /\ c <= 122 THEN c - 71
    ELSE IF c >= 48 /\ c <= 57 THEN c + 4
    ELSE IF c = 43 THEN 62
    ELSE IF c = 47 THEN 63
    ELSE -1

\* the 24 bits of the g-th quantum (from 0) of s + "=": the padding adds no bits
B64Quantum(s, g) ==
    LET v(k) == IF 4 * g + k <= Len(s) THEN B64Value(s[4 * g + k]) ELSE 0
    IN  v(1) * 262144 + v(2) * 4096 + v(3) * 64 + v(4)

\* b64.StdEncoding.DecodeString(sha_b64 + "="): the 32 bytes, or a shorter
\* slice (here the empty one) when a character is outside the alphabet
shaBase64ToShaBinary(sha_b64) ==
    IF Len(sha_b64) = ShaLen /\ \A i \in 1..Len(sha_b64) : B64Value(sha_b64[i]) >= 0
    THEN [k \in 1..32 |->
             LET g == (k - 1) \div 3
                 r == (k - 1) % 3
                 n == B64Quantum(sha_b64, g)
             IN  IF r = 0 THEN n \div 65536
                 ELSE IF r = 1 THEN (n \div 256) % 256
                 ELSE n % 256]
    ELSE <<>>

\* binsha(slice) panics when the slice holds fewer than 32 bytes
BinshaPanics(slice) == Len(slice) < 32

\* the binary SHA getFileSha256 returns for a file of the given content
ShaBin(content) == shaBase64ToShaBinary(HashB64(content))

(***************************************************************************)
(* The detection service: bounds and inputs                                *)
(***************************************************************************)
\* the most files the sweep's walker delivers
MaxSweep == 1
\* the most directories the directory walker delivers
MaxDirs == 1
\* the most file system events the watcher delivers in a run
MaxEvents == 2
\* the most requests the health endpoint answers in a run
MaxRequests == 2

\* what a path stands for when the detector looks at it: a file of watched
\* content, a file of other content, an empty directory, a directory that
\* already holds a file of watched content and a subdirectory, or nothing (any more)
Entities == {"watched", "clean", "dir", "tree", "gone"}

\* the entities os.Stat reports as directories
Directories == {"dir", "tree"}

\* the content of a file: 1 is the content the watch list names
ContentOf(ent) == IF ent = "watched" THEN 1 ELSE 0

\* the watch list: the manifest generate writes for a file of the watched content
WatchRecord == gen(P_b :> [modified |-> OldAttr.modified, size |-> OldAttr.size,
                            content |-> ContentOf("watched")])

\* a line too short to be a signature, and a line of 43 characters that are not Base64
ShortLine == <<65, 66, 67>>
NotBase64Line == [i \in 1..ShaLen |-> 33]

\* the watch lists of the model; the empty one is also what a watch list that
\* is missing or cannot be opened gives
WatchLists == {WatchRecord, <<<<35, 32, 120>>>> \o WatchRecord, <<ShortLine>>,
               <<NotBase64Line>> \o WatchRecord, <<>>}

\* the operations of the events: those watchLoop names, and one it does not
EventOps == {"CREATE", "WRITE", "CHMOD", "REMOVE", "RENAME", "OTHER"}

\* the events of the model: the entity is what the path is when the event is
\* handled (a RENAME names the old path, a REMOVE a path that is gone)
Events ==
    {e \in [op : EventOps, ent : Entities] :
        /\ e.op \in {"CHMOD", "REMOVE", "OTHER"} => e.ent = "gone"
        /\ e.op = "RENAME" => e.ent \in {"gone", "dir"}
        /\ e.op = "CREATE" => e.ent # "gone"
        /\ e.op = "WRITE" => e.ent # "dir"
        /\ e.ent = "tree" => e.op = "CREATE"}

\* strings.Contains(s, sub)
Contains(s, sub) ==
    \E i \in 0..(Len(s) - Len(sub)) : Slice(s, i, i + Len(sub)) = sub

\* the names the sweep's walker delivers below the start path ".": a, .a and d/.a
SweepNames == {<<97>>, <<46, 97>>, <<100, 47, 46, 97>>}

\* the files the sweep's walker delivers: a name, and what the file is when
\* it is hashed (the file that cannot be opened has the plain name)
SweepFiles ==
    {f \in [filename : SweepNames, ent : {"watched", "clean", "gone"}] :
        f.ent = "gone" => f.filename = <<97>>}

\* detect.go line 317: the name holds "/." or begins with "."
DroppedByNoDot(filename) ==
    Contains(filename, <<47, 46>>) \/ Slice(filename, 0, 1) = <<46>>

\* finite sequences over S of length at most n
SeqUpTo(S, n) == UNION {[1..k -> S] : k \in 0..n}

(***************************************************************************)
(* The detection service: main goroutine                                   *)
(***************************************************************************)
\* the variables of an update run, at rest during a run of the detector
UpdIdle ==
    /\ scen = [p \in UPaths |-> "absent"]
    /\ junk = "none"
    /\ fs = LiveTree(scen)
    /\ manifest = <<>>
    /\ num = 1
    /\ cli_overwrite = FALSE
    /\ cli_rehash = FALSE
    /\ wtodo = <<>>
    /\ wsent = <<>>
    /\ fileQueue = <<>>
    /\ qclosed = FALSE
    /\ pc = "off"
    /\ mpos = 0
    /\ ssf = EmptySsf
    /\ trip = EmptyTrip
    /\ cnt = ZeroCnt
    /\ out = <<>>
    /\ tags = <<>>
    /\ disk = [slot \in {"old", "temp", "second"} |-> "none"]
    /\ fsops = <<>>
    /\ exitCode = -1

InitDetect ==
    /\ UpdIdle
    /\ codec = CodecIdle
    /\ tool = ToolIdle
    /\ \E check \in {0, 8080}, disclose, noprecheck, asap, nodot \in BOOLEAN,
          wl \in WatchLists, sw \in SeqUpTo(SweepFiles, MaxSweep),
          nd \in 1..MaxDirs :
          /\ noprecheck => (sw = <<>> /\ ~asap)
          /\ asap => \E i \in 1..Len(sw) : sw[i].ent = "watched"
          /\ nodot => \E i \in 1..Len(sw) : DroppedByNoDot(sw[i].filename)
          /\ disclose => check # 0
          /\ det = [phase |-> "start",        \* position of det
                    cli_check |-> check,      \* --check, 0 without health endpoint
                    cli_disclose |-> disclose,
                    cli_noprecheck |-> noprecheck,
                    cli_asap |-> asap,
                    cli_nodot |-> nodot,
                    wl |-> wl,                \* lines of the watch list not yet read
                    watchedSHAs |-> {},
                    watchedFileDetected |-> FALSE,
                    watchDetected |-> <<>>,   \* rows <<duringPrescan, entity>>
                    sweep |-> sw,             \* files the sweep's walker delivers
                    nswept |-> 0,             \* how many of them the sweep received
                    dirs |-> nd,              \* directories still to register
                    watching |-> FALSE,       \* the watcher holds a directory
                    unseen |-> FALSE,         \* a file of watched content was created
                                              \* after the sweep and before watching
                    worker |-> "none",        \* position of watchLoop
                    events |-> <<>>,          \* w.Events
                    posted |-> 0,             \* events delivered so far
                    errs |-> 0,               \* errors waiting on w.Errors
                    closed |-> FALSE,         \* the watcher's channels are closed
                    server |-> FALSE,         \* the HTTP server is listening
                    resp |-> <<>>,            \* answers given to GET /
                    logresp |-> <<>>,         \* answers given to GET /log
                    exitCode |-> -1,          \* -1 while the process runs
                    stderr |-> ""]            \* the message the process ended with

\* the process is running
Alive == det.phase # "off" /\ det.exitCode = -1

\* abort(rc, msg): the message goes to stderr and os.Exit(rc) ends every goroutine
abort(d, rc, msg) == [d EXCEPT !.exitCode = rc, !.stderr = msg, !.phase = "exited"]

\* an unrecovered run-time panic ends the process with exit code 2
panic(d) == abort(d, 2, "panic")

\* detectTriggered: exit without a health endpoint, else raise the flag
detectTriggered(d) ==
    IF d.cli_check = 0 THEN abort(d, 2, "Unable to register watcher")
    ELSE [d EXCEPT !.watchedFileDetected = TRUE]

\* a logger that puts the newest row first
tsLogger_newestFirst(d, pre, ent) == [d EXCEPT !.watchDetected = <<<<pre, ent>>>> \o @]

\* tsLogger
tsLogger(d, pre, ent) == [d EXCEPT !.watchDetected = Append(@, <<pre, ent>>)]

\* registerDirectory: watcher.Add succeeds (ok) or fails
registerDirectory(d, ok) ==
    IF ok THEN [d EXCEPT !.watching = TRUE] ELSE detectTriggered(d)

\* det up to the start of phase 1: the flag and the watch list are reset
DetStart ==
    /\ Alive /\ det.phase = "start"
    /\ det' = [det EXCEPT !.phase = "ingest", !.watchedFileDetected = FALSE,
                          !.watchedSHAs = {}]
    /\ UNCHANGED updVars

\* phase 1, one line of a watch list
DetIngestLine ==
    /\ Alive /\ det.phase = "ingest" /\ det.wl # <<>>
    /\ LET s == Head(det.wl)
           d == [det EXCEPT !.wl = Tail(@)]
       IN  det' = IF Len(s) = 0 \/ s[1] = 35 THEN d
                  ELSE IF Len(s) < ShaLen THEN d
                  ELSE LET key == shaBase64ToShaBinary(Slice(s, 0, ShaLen))
                       IN  IF BinshaPanics(key) THEN panic(d)
                           ELSE [d EXCEPT !.watchedSHAs = @ \cup {key}]
    /\ UNCHANGED updVars

\* an end of phase 1 that goes on whatever the watch set holds
DetIngestEnd_withoutEmptyCheck ==
    /\ Alive /\ det.phase = "ingest" /\ det.wl = <<>>
    /\ det' = [det EXCEPT !.phase = IF det.cli_noprecheck THEN "watch" ELSE "sweep"]
    /\ UNCHANGED updVars

\* the end of phase 1: an empty watch list ends the run
DetIngestEnd ==
    /\ Alive /\ det.phase = "ingest" /\ det.wl = <<>>
    /\ det' = IF det.watchedSHAs = {}
              THEN abort(det, 1, "Nothing to detect (watch list is empty)")
              ELSE [det EXCEPT !.phase = IF det.cli_noprecheck THEN "watch" ELSE "sweep"]
    /\ UNCHANGED updVars

\* a sweep that checks every file it receives, whatever its name
DetSweepFile_withoutNoDot ==
    /\ Alive /\ det.phase = "sweep" /\ det.nswept < Len(det.sweep)
    /\ LET filerec == det.sweep[det.nswept + 1]
           ent == filerec.ent
           d == [det EXCEPT !.nswept = @ + 1]
           hit == [d EXCEPT !.watchedFileDetected = TRUE]
           logged == IF det.cli_disclose THEN tsLogger(hit, TRUE, ent) ELSE hit
       IN  det' = IF ent = "gone" THEN panic(d)
                  ELSE IF ShaBin(ContentOf(ent)) \in det.watchedSHAs
                       THEN IF det.cli_asap THEN [logged EXCEPT !.phase = "swept"]
                            ELSE logged
                       ELSE d
    /\ UNCHANGED updVars

\* phase 2, one file received from the sweep's queue
DetSweepFile ==
    /\ Alive /\ det.phase = "sweep" /\ det.nswept < Len(det.sweep)
    /\ LET filerec == det.sweep[det.nswept + 1]
           ent == filerec.ent
           d == [det EXCEPT !.nswept = @ + 1]
           hit == [d EXCEPT !.watchedFileDetected = TRUE]
           logged == IF det.cli_disclose THEN tsLogger(hit, TRUE, ent) ELSE hit
       IN  det' = IF det.cli_nodot /\ DroppedByNoDot(filerec.filename) THEN d
                  ELSE IF ent = "gone" THEN panic(d)
                  ELSE IF ShaBin(ContentOf(ent)) \in det.watchedSHAs
                       THEN IF det.cli_asap THEN [logged EXCEPT !.phase = "swept"]
                            ELSE logged
                       ELSE d
    /\ UNCHANGED updVars

\* phase 2, the queue is closed and empty
DetSweepDone ==
    /\ Alive /\ det.phase = "sweep" /\ det.nswept = Len(det.sweep)
    /\ det' = [det EXCEPT !.phase = "swept"]
    /\ UNCHANGED updVars

\* the end of phase 2: a hit ends the run when there is no health endpoint;
\* else the block of phase 2 is left, and its queue with it
DetSweepEnd ==
    /\ Alive /\ det.phase = "swept"
    /\ det' = IF det.watchedFileDetected /\ det.cli_check = 0
              THEN abort(det, 1, "One or more watched files found during pre-launch check")
              ELSE [det EXCEPT !.phase = "watch", !.sweep = <<>>, !.nswept = 0]
    /\ UNCHANGED updVars

\* phase 3: fsnotify.NewWatcher and go watchLoop(watcher)
DetNewWatcher ==
    /\ Alive /\ det.phase = "watch"
    /\ det' = [det EXCEPT !.phase = "register", !.worker = "select"]
    /\ UNCHANGED updVars

\* phase 3, one directory received from the directory queue
DetRegister ==
    /\ Alive /\ det.phase = "register" /\ det.dirs > 0
    /\ \E ok \in BOOLEAN :
          det' = registerDirectory([det EXCEPT !.dirs = @ - 1], ok)
    /\ UNCHANGED updVars

\* an HTTP server started as soon as the sweep begins
DetServe_beforeSweep ==
    /\ Alive /\ det.phase = "sweep" /\ ~det.server /\ det.cli_check # 0
    /\ det' = [det EXCEPT !.server = TRUE]
    /\ UNCHANGED updVars

\* phase 3, the directories are registered: start the HTTP server when a
\* health endpoint is asked for, then block for ever
DetServe ==
    /\ Alive /\ det.phase = "register" /\ det.dirs = 0
    /\ det' = [det EXCEPT !.phase = "blocked", !.server = det.cli_check # 0]
    /\ UNCHANGED updVars

(***************************************************************************)
(* The detection service: the event worker (watchLoop)                     *)
(***************************************************************************)
\* watchProcessFile up to the write of the flag: hash the file and look it up
watchProcessFile(d, ent) ==
    IF ent \in {"gone"} \cup Directories THEN panic(d)
    ELSE IF ShaBin(ContentOf(ent)) \in d.watchedSHAs
         THEN IF d.cli_check = 0 THEN abort(d, 1, "File on watchlist detected")
              ELSE [(IF d.cli_disclose THEN tsLogger(d, FALSE, ent) ELSE d)
                       EXCEPT !.worker = "setflag"]
         ELSE d

\* watchProcessUnidentifiedEntity: os.Stat, then a directory or a file
watchProcessUnidentifiedEntity(d, ent, ok) ==
    IF ent = "gone" THEN abort(d, 2, "New entry added but unable to stat")
    ELSE IF ent \in Directories THEN registerDirectory(d, ok)
    ELSE watchProcessFile(d, ent)

\* one event received from w.Events and handled, up to the write of the flag
WatchLoopEvent ==
    /\ Alive /\ det.worker = "select" /\ det.events # <<>>
    /\ LET e == Head(det.events)
           d == [det EXCEPT !.events = Tail(@)]
       IN  \E ok \in (IF e.ent \in Directories THEN BOOLEAN ELSE {TRUE}) :
              det' = IF e.op \in {"CREATE", "RENAME"}
                        THEN watchProcessUnidentifiedEntity(d, e.ent, ok)
                     ELSE IF e.op = "WRITE" THEN watchProcessFile(d, e.ent)
                     ELSE IF e.op \in {"CHMOD", "REMOVE"} THEN d
                     ELSE abort(d, 1, "Unable to continue monitoring (unknown event")
    /\ UNCHANGED updVars

\* watchProcessFile, line 182: watchedFileDetected = true
WatchSetDetected ==
    /\ Alive /\ det.worker = "setflag"
    /\ det' = [det EXCEPT !.watchedFileDetected = TRUE, !.worker = "select"]
    /\ UNCHANGED updVars

\* an error received from w.Errors is printed
WatchLoopError ==
    /\ Alive /\ det.worker = "select" /\ det.errs > 0
    /\ det' = [det EXCEPT !.errs = @ - 1]
    /\ UNCHANGED updVars

\* w.Events is closed and empty: abort(1, "Encountered monitoring failure")
WatchLoopEventsClosed ==
    /\ Alive /\ det.worker = "select" /\ det.closed /\ det.events = <<>>
    /\ det' = abort(det, 1, "Encountered monitoring failure")
    /\ UNCHANGED updVars

\* w.Errors is closed and empty: return
WatchLoopErrorsClosed ==
    /\ Alive /\ det.worker = "select" /\ det.closed /\ det.errs = 0
    /\ det' = [det EXCEPT !.worker = "returned"]
    /\ UNCHANGED updVars

(***************************************************************************)
(* The detection service: the watcher's side and the HTTP handlers         *)
(***************************************************************************)
\* a change below a registered directory becomes an event on w.Events, which
\* NewWatcher makes without a buffer: one event at a time waits for watchLoop.
\* The directory goes on changing when the process has ended: the event then
\* waits for ever
EnvEvent ==
    /\ det.phase # "off" /\ det.watching /\ ~det.closed /\ det.posted < MaxEvents
    /\ det.events = <<>>
    /\ \E e \in Events :
          det' = [det EXCEPT !.events = Append(@, e), !.posted = @ + 1]
    /\ UNCHANGED updVars

\* a file of watched content is created in the tree when phase 2 is over and
\* the watcher is not yet made: the walker has read the directory before, and
\* no watcher holds the directory to send an event for it
EnvCreateUnseen ==
    /\ Alive /\ ~det.cli_noprecheck
    /\ det.phase = "watch" /\ ~det.watching
    /\ ~det.unseen /\ det.posted < MaxEvents
    /\ det' = [det EXCEPT !.unseen = TRUE, !.posted = @ + 1]
    /\ UNCHANGED updVars

\* the watcher reports an error
EnvError ==
    /\ Alive /\ det.worker # "none" /\ ~det.closed /\ det.errs = 0
    /\ det.posted < MaxEvents
    /\ det' = [det EXCEPT !.errs = 1, !.posted = @ + 1]
    /\ UNCHANGED updVars

\* the watcher stops: its channels are closed
EnvClose ==
    /\ Alive /\ det.worker # "none" /\ ~det.closed
    /\ det' = [det EXCEPT !.closed = TRUE]
    /\ UNCHANGED updVars

\* a responder that answers 200 whatever the flag holds
healthCheckResponder_alwaysOk(detected) == [code |-> 200, body |-> "200 - OK\n"]

\* healthCheckResponder: the answer to GET / for a value of the flag
healthCheckResponder(detected) ==
    IF ~detected THEN [code |-> 200, body |-> "200 - OK\n"]
    ELSE [code |-> 503, body |-> "503 - Detected\n"]

\* a GET / answered
HealthGet ==
    /\ Alive /\ det.server /\ Len(det.resp) + Len(det.logresp) < MaxRequests
    /\ det' = [det EXCEPT !.resp = Append(@, healthCheckResponder(det.watchedFileDetected))]
    /\ UNCHANGED updVars

\* the fields of a row as healthCheckLogDisplay prints them after the time
\* stamp and the hash: %t of duringPrescan, %s of fileName
LogRow(d) == [duringPrescan |-> IF d[1] THEN "true" ELSE "false", fileName |-> d[2]]

\* healthCheckLogDisplay: the answer to GET /log for a value of watchDetected
healthCheckLogDisplay(rows) ==
    IF Len(rows) = 0 THEN [code |-> 404, body |-> <<>>]
    ELSE [code |-> 200, body |-> [i \in 1..Len(rows) |-> LogRow(rows[i])]]

\* a GET /log answered: the handler is registered in disclosure mode only
LogGet ==
    /\ Alive /\ det.server /\ det.cli_disclose
    /\ Len(det.resp) + Len(det.logresp) < MaxRequests
    /\ det' = [det EXCEPT !.logresp = Append(@, healthCheckLogDisplay(det.watchDetected))]
    /\ UNCHANGED updVars

NextDetect ==
    \/ DetStart
    \/ DetIngestLine
    \/ DetIngestEnd
    \/ DetSweepFile
    \/ DetSweepDone
    \/ DetSweepEnd
    \/ DetNewWatcher
    \/ DetRegister
    \/ DetServe
    \/ WatchLoopEvent
    \/ WatchSetDetected
    \/ WatchLoopError
    \/ WatchLoopEventsClosed
    \/ WatchLoopErrorsClosed
    \/ EnvEvent
    \/ EnvCreateUnseen
    \/ EnvError
    \/ EnvClose
    \/ HealthGet
    \/ LogGet

SpecDetect == InitDetect /\ [][NextDetect]_vars

(***************************************************************************)
(* The path encoding and the record format: writer, then reader             *)
(***************************************************************************)
\* the longest path of the model, in bytes
MaxPathLen == 4

\* the bytes of the model's paths: TAB, CR, "0", "\", "a", "x", and the two
\* bytes of U+00E9 (0xc3 0xa9), each of which alone is not UTF-8
CodecBytes == {9, 13, 48, 92, 97, 120, 169, 195}

CodecPaths == SeqUpTo(CodecBytes, MaxPathLen) \ {<<>>}

\* the records of the model: hash, modtime (%08x), size (%04x), annotations
\* (none, or the one token "F") and path; the longer paths come with no
\* annotation and the size 0
CodecRecords ==
    {r \in [shab64 : {HashB64(1)}, modt : {HexPad(OldAttr.modified, 8)},
            size : {HexPad(0, 4), HexPad(1048576, 4)},
            annotations : {<<>>, <<<<70>>>>}, path : CodecPaths] :
        Len(r.path) > 1 => (r.annotations = <<>> /\ r.size = HexPad(0, 4))}

\* isBase64: the string with "=" appended decodes
isBase64(s) == \A i \in 1..Len(s) : B64Value(s[i]) >= 0

\* isHexadecimal
isHexadecimal(s) == \A i \in 1..Len(s) : s[i] \in (48..57) \cup (97..102)

\* strings.Index(s, sub): the offset of the first occurrence, or -1
Index(s, sub) ==
    LET at == {i \in 0..(Len(s) - Len(sub)) : Slice(s, i, i + Len(sub)) = sub}
    IN  IF at = {} THEN -1 ELSE CHOOSE i \in at : \A j \in at : i <= j

\* the reader before its first line
EmptyReader == [buffer |-> <<>>, shaBase64 |-> <<>>, format |-> 0, spacePosition |-> 0,
                err |-> ""]

\* what nextSHA returns on a line it refuses
Refused(r, msg) == [r EXCEPT !.format = -1, !.err = msg]

RECURSIVE nextSHA(_, _)
\* nextSHA on the lines the scanner still holds: the reader's fields after
\* the call (format -1 and no error at the end of the file)
nextSHA(reader, lines) ==
    LET r0 == [reader EXCEPT !.buffer = <<>>, !.shaBase64 = <<>>, !.format = 0, !.err = ""]
    IN  IF lines = <<>> THEN [r0 EXCEPT !.format = -1]
        ELSE LET s == Head(lines)
                 pos == IndexByte(s, 32)
                 r1 == [r0 EXCEPT !.buffer = s, !.shaBase64 = Slice(s, 0, ShaLen)]
                 r2 == [r1 EXCEPT !.spacePosition = pos]
                 hexStream == IF pos = -1 THEN From(s, ShaLen) ELSE Slice(s, ShaLen, pos)
             IN  IF Len(s) = 0 \/ s[1] = 35 THEN nextSHA(reader, Tail(lines))
                 ELSE IF Len(s) < ShaLen \/ ~isBase64(Slice(s, 0, ShaLen))
                      THEN Refused(r0, "invalid format #1")
                 ELSE IF Len(s) = ShaLen THEN [r1 EXCEPT !.format = 1]
                 ELSE IF pos = -1
                      THEN IF ~isHexadecimal(hexStream) THEN Refused(r2, "invalid format #2")
                           ELSE IF Len(hexStream) = 8 THEN [r2 EXCEPT !.format = 2]
                           ELSE IF Len(hexStream) >= 12 /\ Len(hexStream) <= 22
                                THEN [r2 EXCEPT !.format = 3]
                           ELSE Refused(r2, "invalid format #3")
                 ELSE IF Len(hexStream) >= 12 /\ Len(hexStream) <= 22
                      THEN [r2 EXCEPT !.format =
                               IF Slice(s, pos + 1, Min(pos + 2, Len(s))) # <<58>> THEN 4 ELSE 5]
                 ELSE Refused(r2, "invalid format #4")

\* allFields: the fields of the line nextSHA accepted last
allFields(reader) ==
    LET none == [shab64 |-> reader.shaBase64, format |-> reader.format, modtime |-> <<>>,
                 length |-> <<>>, name |-> <<>>, annotations |-> <<>>, err |-> ""]
        modTime == Slice(reader.buffer, ShaLen, ModEnd)
        pos2 == Index(reader.buffer, <<32, 58>>)
    IN  CASE reader.format = 1 -> none
          [] reader.format = 2 -> [none EXCEPT !.modtime = modTime]
          [] reader.format = 3 ->
                [none EXCEPT !.modtime = modTime, !.length = From(reader.buffer, ModEnd)]
          [] reader.format = 4 ->
                [none EXCEPT !.modtime = modTime,
                             !.length = Slice(reader.buffer, ModEnd, reader.spacePosition)]
          [] reader.format = 5 ->
                IF pos2 = -1 THEN [none EXCEPT !.err = "unexpected absent name field"]
                ELSE [none EXCEPT !.modtime = modTime,
                                  !.length = Slice(reader.buffer, ModEnd, reader.spacePosition),
                                  !.name = From(reader.buffer, pos2 + 2)]
          [] OTHER -> [none EXCEPT !.err = "invalid call to allFields"]

InitCodec ==
    /\ UpdIdle
    /\ det = DetIdle
    /\ tool = ToolIdle
    /\ \E r \in CodecRecords :
          codec = [pc |-> "input",           \* how far the record has come
                   rec |-> r,                \* the record
                   stored |-> <<>>,          \* storeLine of its path
                   restored |-> <<>>,        \* restoreLine of that
                   text |-> <<>>,            \* the bytes the writer has written
                   reader |-> EmptyReader,   \* the reader after nextSHA
                   fields |-> allFields(EmptyReader)]

\* storeLine applied to the path
CodecStore ==
    /\ codec.pc = "input"
    /\ codec' = [codec EXCEPT !.pc = "stored", !.stored = storeLine(codec.rec.path)]
    /\ UNCHANGED <<restVars, tool>>

\* restoreLine applied to the stored path
CodecRestore ==
    /\ codec.pc = "stored"
    /\ codec' = [codec EXCEPT !.pc = "restored", !.restored = restoreLine(codec.stored)]
    /\ UNCHANGED <<restVars, tool>>

\* the record written at format 5: writeRecord has parameters for the hash,
\* the modtime, the size and the name, and none for annotations; Fprintln
\* ends the line
CodecWrite ==
    /\ codec.pc = "input"
    /\ LET r == codec.rec
           w == writeRecord([cnt |-> ZeroCnt, out |-> <<>>, tags |-> <<>>], TRUE, 5, "N",
                            r.shab64, r.modt, r.size, r.path, <<>>)
       IN  codec' = [codec EXCEPT !.pc = "written", !.text = w.out[1] \o <<10>>]
    /\ UNCHANGED <<restVars, tool>>

\* the reader's first stage on the text written
CodecNextSHA ==
    /\ codec.pc = "written"
    /\ codec' = [codec EXCEPT !.pc = "scanned",
                              !.reader = nextSHA(EmptyReader, SplitLF(codec.text))]
    /\ UNCHANGED <<restVars, tool>>

\* the reader's second stage
CodecAllFields ==
    /\ codec.pc = "scanned"
    /\ codec' = [codec EXCEPT !.pc = "decoded", !.fields = allFields(codec.reader)]
    /\ UNCHANGED <<restVars, tool>>

NextCodec ==
    \/ CodecStore
    \/ CodecRestore
    \/ CodecWrite
    \/ CodecNextSHA
    \/ CodecAllFields

SpecCodec == InitCodec /\ [][NextCodec]_vars

(***************************************************************************)
(* The batch commands: inputs                                              *)
(***************************************************************************)
\* the most lines of a manifest given to consolidate
MaxLines == 2
\* the most invalid lines in a row in the input of anonymise
MaxBad == 6
\* the most lines of a manifest given to anonymise (beside the invalid ones),
\* compare or duplicates
MaxRecords == 3

\* the truncated Base64 of the SHA-256 of no bytes
emptySHAb64 ==
    <<52, 55, 68, 69, 81, 112, 106, 56, 72, 66, 83, 97, 43, 47, 84, 73, 109, 87, 43, 53, 74, 67,
      101, 117, 81, 101, 82, 107, 109, 53, 78, 77, 112, 74, 87, 90, 71, 51, 104, 83, 117, 70, 85>>

\* the lines the scanner has still to deliver after pos of them
Rest(lines, pos) == SubSeq(lines, pos + 1, Len(lines))

RECURSIVE scanned(_)
\* the number of lines one call of nextSHA takes from the scanner: the blank
\* lines and comments it drops and the line it returns on
scanned(lines) ==
    IF lines = <<>> THEN 0
    ELSE IF Len(Head(lines)) = 0 \/ Head(lines)[1] = 35 THEN 1 + scanned(Tail(lines))
    ELSE 1

(***************************************************************************)
(* anonymise                                                               *)
(***************************************************************************)
\* the runs of anonymise: the input is a manifest of hashes in the formats 1
\* and 5, the empty-file hash among them, with a comment and a run of invalid
\* lines put in after its first line; --format with --no-empty unset, or
\* --no-empty at the default format; one or two .ssf names
AnoRuns ==
    LET kinds == {HashB64(1), emptySHAb64,
                  FormatLine(Form, HashB64(0), HexPad(OldAttr.modified, 8), HexPad(0, 4), P_b)}
        junkRun(k) == IF k = 0 THEN <<>> ELSE <<<<35, 32, 120>>>> \o [i \in 1..k |-> ShortLine]
    IN  {[cmd |-> "ano", pc |-> "read",
          lines |-> SubSeq(m, 1, Min(1, Len(m))) \o junkRun(k) \o Rest(m, Min(1, Len(m))),
          pos |-> 0,                   \* lines the scanner has delivered
          num |-> n, cli_format |-> fl.f, cli_noempty |-> fl.ne,
          shaMap |-> {},               \* the keys of shaMap (every value is "")
          errorTolerance |-> 5,
          created |-> "",              \* what writeInit has opened
          out |-> <<>>,                \* the lines written to w
          exit |-> -1] :
            m \in SeqUpTo(kinds, MaxRecords), k \in 0..MaxBad, n \in {1, 2},
            fl \in {x \in [f : 1..5, ne : BOOLEAN] : x.ne => x.f = 1}}

\* one turn of the read loop without the count of errors
AnoNext_neverGivesUp ==
    /\ tool.cmd = "ano" /\ tool.pc = "read"
    /\ LET rest == Rest(tool.lines, tool.pos)
           reader == nextSHA(EmptyReader, rest)
           shab64 == IF reader.format = -1 THEN <<>> ELSE reader.shaBase64
           t == [tool EXCEPT !.pos = @ + scanned(rest)]
       IN  tool' = IF shab64 # <<>> THEN [t EXCEPT !.shaMap = @ \cup {shab64}]
                   ELSE IF reader.err # "" THEN t
                   ELSE [t EXCEPT !.pc = "write"]
    /\ UNCHANGED <<restVars, codec>>

\* one turn of the read loop: a hash is stored; an invalid line is passed
\* over while the tolerance lasts and ends the run with exit code 1 after
\* that; the end of the file leaves the loop
AnoNext ==
    /\ tool.cmd = "ano" /\ tool.pc = "read"
    /\ LET rest == Rest(tool.lines, tool.pos)
           reader == nextSHA(EmptyReader, rest)
           shab64 == IF reader.format = -1 THEN <<>> ELSE reader.shaBase64
           t == [tool EXCEPT !.pos = @ + scanned(rest)]
       IN  tool' = IF shab64 # <<>> THEN [t EXCEPT !.shaMap = @ \cup {shab64}]
                   ELSE IF reader.err # ""
                        THEN IF tool.errorTolerance - 1 >= 0
                             THEN [t EXCEPT !.errorTolerance = @ - 1]
                             ELSE [t EXCEPT !.errorTolerance = @ - 1, !.pc = "done", !.exit = 1]
                   ELSE [t EXCEPT !.pc = "write"]
    /\ UNCHANGED <<restVars, codec>>

\* the end of anonymise with the empty-file hash left in
AnoWrite_keepsEmpty ==
    /\ tool.cmd = "ano" /\ tool.pc = "write"
    /\ tool' = IF tool.shaMap = {} THEN [tool EXCEPT !.pc = "done", !.exit = 1]
               ELSE [tool EXCEPT !.pc = "done", !.exit = 0,
                                 !.created = IF tool.num = 2 THEN "second" ELSE "stdout",
                                 !.out = SortNames(tool.shaMap)]
    /\ UNCHANGED <<restVars, codec>>

\* the end of anonymise: nothing found is exit code 1; else the empty-file
\* hash is taken out under --no-empty, the keys are sorted, the writer is
\* opened (the second file, or stdout) and one line per key is written
AnoWrite ==
    /\ tool.cmd = "ano" /\ tool.pc = "write"
    /\ LET kept == IF tool.cli_noempty THEN tool.shaMap \ {emptySHAb64} ELSE tool.shaMap
       IN  tool' = IF tool.shaMap = {} THEN [tool EXCEPT !.pc = "done", !.exit = 1]
                   ELSE [tool EXCEPT !.pc = "done", !.exit = 0, !.shaMap = kept,
                                     !.created = IF tool.num = 2 THEN "second" ELSE "stdout",
                                     !.out = SortNames(kept)]
    /\ UNCHANGED <<restVars, codec>>

(***************************************************************************)
(* consolidate                                                             *)
(***************************************************************************)
\* splitSSFLine: no field at all for a line without a space; s[51:pos] is
\* out of range (a run-time panic) when the space comes before offset 51
splitSSFLine(s) ==
    LET pos == IndexByte(s, 32)
    IN  IF pos = -1
        THEN [panic |-> FALSE, shab64 |-> <<>>, modtime |-> <<>>, length |-> <<>>,
              name |-> <<>>]
        ELSE IF pos < ModEnd
        THEN [panic |-> TRUE, shab64 |-> <<>>, modtime |-> <<>>, length |-> <<>>,
              name |-> <<>>]
        ELSE [panic |-> FALSE, shab64 |-> Slice(s, 0, ShaLen),
              modtime |-> Slice(s, ShaLen, ModEnd), length |-> Slice(s, ModEnd, pos),
              name |-> From(s, Min(pos + 2, Len(s)))]

RECURSIVE ssfCollectRead(_, _, _)
\* ssfCollectRead over the lines of the file: hits after the loop (a function
\* from the hashes met to the value kept), and whether a line made
\* splitSSFLine panic
ssfCollectRead(lines, hits, format) ==
    IF lines = <<>> THEN [hits |-> hits, panic |-> FALSE]
    ELSE LET s == Head(lines)
             f == splitSSFLine(s)
             ok == f.shab64 \in DOMAIN hits
             put(v) == [k \in DOMAIN hits \cup {f.shab64} |->
                           IF k = f.shab64 THEN v ELSE hits[k]]
         IN  IF Len(s) = 0 \/ s[1] = 35 THEN ssfCollectRead(Tail(lines), hits, format)
             ELSE IF f.panic THEN [hits |-> hits, panic |-> TRUE]
             ELSE IF f.shab64 = <<>> THEN ssfCollectRead(Tail(lines), hits, format)
             ELSE CASE format = 1 -> ssfCollectRead(Tail(lines), put(<<>>), format)
                    [] format = 2 ->
                         IF ok /\ Less(hits[f.shab64], f.modtime)
                         THEN ssfCollectRead(Tail(lines), hits, format)
                         ELSE ssfCollectRead(Tail(lines), put(f.modtime), format)
                    [] format = 3 ->
                         IF ok /\ Less(Slice(hits[f.shab64], 0, 8), f.modtime)
                         THEN ssfCollectRead(Tail(lines), hits, format)
                         ELSE ssfCollectRead(Tail(lines), put(f.modtime \o f.length), format)
                    [] OTHER -> ssfCollectRead(Tail(lines), hits, format)

\* the runs of consolidate: the first file holds records of the formats 1, 2,
\* 3 and 5 with modtimes before and after 1980; --format is absent (0), 1 or
\* 2; one name with or without --overwrite, or two names of which the second
\* exists or not
ConRuns ==
    LET at(f, c, t) == FormatLine(f, HashB64(c), HexPad(t, 8), HexPad(OldAttr.size, 4), P_b)
        some == {at(f, 0, OldAttr.modified) : f \in {1, 2, 3}}
                \cup {at(Form, 0, t) : t \in {1, OldAttr.modified, OldAttr.modified + 1}}
                \cup {at(Form, 1, OldAttr.modified)}
    IN  {[cmd |-> "con", pc |-> "start",
          num |-> a.num, cli_overwrite |-> a.ow, cli_format |-> cf,
          form |-> 0, fnr |-> "", fnw |-> "",
          first  |-> [exists |-> TRUE, lines |-> m],     \* files[0]
          second |-> [exists |-> a.found, lines |-> IF a.found THEN <<HashB64(2)>> ELSE <<>>],
          temp   |-> [exists |-> FALSE, lines |-> <<>>], \* files[0] + ".temp"
          stdout |-> <<>>,             \* the lines written to stdout through w
          hits |-> <<>>,
          exit |-> -1] :
            m \in SeqUpTo(some, MaxLines), cf \in {0, 1, 2},
            a \in {[num |-> 1, ow |-> FALSE, found |-> FALSE],
                   [num |-> 1, ow |-> TRUE, found |-> FALSE],
                   [num |-> 2, ow |-> FALSE, found |-> TRUE],
                   [num |-> 2, ow |-> FALSE, found |-> FALSE]}}

\* con up to writeInit: the format, the switch over the arguments, and the
\* writer, which creates (and empties) the file named fnw
ConStart ==
    /\ tool.cmd = "con" /\ tool.pc = "start"
    /\ LET form == IF tool.cli_format # 0 THEN tool.cli_format ELSE 3
           fnr == IF tool.num = 1 THEN "first" ELSE ""
           fnw == IF tool.num = 1 /\ tool.cli_overwrite THEN "temp"
                  ELSE IF tool.num = 2 /\ tool.second.exists THEN "second"
                  ELSE ""
           new == [exists |-> TRUE, lines |-> <<>>]
       IN  tool' = IF form = 9 THEN [tool EXCEPT !.pc = "done", !.exit = 6, !.form = form]
                   ELSE [tool EXCEPT !.pc = "collect", !.form = form, !.fnr = fnr, !.fnw = fnw,
                                     !.temp = IF fnw = "temp" THEN new ELSE @,
                                     !.second = IF fnw = "second" THEN new ELSE @]
    /\ UNCHANGED <<restVars, codec>>

\* con from ssfCollectRead on: no file of the name fnr is exit code 4; else
\* the records are collected, and one line per key is written in key order
ConCollect ==
    /\ tool.cmd = "con" /\ tool.pc = "collect"
    /\ LET read == ssfCollectRead(tool.first.lines, <<>>, tool.form)
           hits == read.hits
           text == [i \in 1..Len(SortNames(DOMAIN hits)) |->
                       SortNames(DOMAIN hits)[i] \o hits[SortNames(DOMAIN hits)[i]]]
       IN  tool' = IF tool.fnr = "" THEN [tool EXCEPT !.pc = "done", !.exit = 4]
                   ELSE IF read.panic THEN [tool EXCEPT !.pc = "done", !.exit = 2]
                   ELSE [tool EXCEPT !.pc = "done", !.exit = 0, !.hits = hits,
                                     !.stdout = IF tool.fnw = "" THEN text ELSE @,
                                     !.temp = IF tool.fnw = "temp" THEN [@ EXCEPT !.lines = text]
                                              ELSE @,
                                     !.second = IF tool.fnw = "second"
                                                THEN [@ EXCEPT !.lines = text] ELSE @]
    /\ UNCHANGED <<restVars, codec>>

(***************************************************************************)
(* The scoreboards; compare and duplicates                                 *)
(***************************************************************************)
\* ssfRecCount: the lines of the file that are neither empty nor comments
ssfRecCount(lines) == Len(SelectSeq(lines, LAMBDA s : Len(s) > 0 /\ s[1] # 35))

RECURSIVE ssfScoreboardRead(_, _, _)
\* ssfScoreboardRead: m[s[0:43]] = flag for every record line
ssfScoreboardRead(lines, m, flag) ==
    IF lines = <<>> THEN m
    ELSE LET s == Head(lines)
             k == Slice(s, 0, ShaLen)
         IN  IF Len(s) = 0 \/ s[1] = 35 THEN ssfScoreboardRead(Tail(lines), m, flag)
             ELSE ssfScoreboardRead(Tail(lines),
                                    [x \in DOMAIN m \cup {k} |-> IF x = k THEN flag ELSE m[x]],
                                    flag)

RECURSIVE ssfScoreboardMark(_, _, _)
\* ssfScoreboardMark: m[s[0:43]] = flag for the record lines whose key the
\* scoreboard holds
ssfScoreboardMark(lines, m, flag) ==
    IF lines = <<>> THEN m
    ELSE LET s == Head(lines)
             k == Slice(s, 0, ShaLen)
         IN  IF Len(s) = 0 \/ s[1] = 35 THEN ssfScoreboardMark(Tail(lines), m, flag)
             ELSE IF k \in DOMAIN m
                  THEN ssfScoreboardMark(Tail(lines), [m EXCEPT ![k] = flag], flag)
             ELSE ssfScoreboardMark(Tail(lines), m, flag)

\* ssfScoreboardRemove: the scoreboard without the entries of the value target
ssfScoreboardRemove(m, target) == [k \in {x \in DOMAIN m : m[x] # target} |-> m[k]]

RECURSIVE ssfScoreboardDupRead(_, _)
\* ssfScoreboardDupRead: a new key is entered as false, a key met again
\* becomes true
ssfScoreboardDupRead(lines, m) ==
    IF lines = <<>> THEN m
    ELSE LET s == Head(lines)
             k == Slice(s, 0, ShaLen)
         IN  IF Len(s) = 0 \/ s[1] = 35 THEN ssfScoreboardDupRead(Tail(lines), m)
             ELSE IF k \in DOMAIN m
                  THEN ssfScoreboardDupRead(Tail(lines), [m EXCEPT ![k] = TRUE])
             ELSE ssfScoreboardDupRead(Tail(lines),
                                       [x \in DOMAIN m \cup {k} |-> IF x = k THEN FALSE ELSE m[x]])

\* an overlap that is the scoreboard of the smaller file, unmarked
comOverlap_ofSmallerFile(a, b) ==
    ssfScoreboardRead(IF ssfRecCount(b) < ssfRecCount(a) THEN b ELSE a, <<>>, TRUE)

\* the overlap of com: the file of fewer records (the first at a tie) fills
\* the scoreboard with false, the other file marks, the unmarked keys go
comOverlap(a, b) ==
    LET smaller == IF ssfRecCount(b) < ssfRecCount(a) THEN b ELSE a
        larger  == IF ssfRecCount(b) < ssfRecCount(a) THEN a ELSE b
    IN  ssfScoreboardRemove(
            ssfScoreboardMark(larger, ssfScoreboardRead(smaller, <<>>, FALSE), TRUE), FALSE)

\* the runs of compare (two manifests, the second one line shorter at most)
\* and of duplicates (one): records of the format 5 of one hash under two
\* names, a record of the format 1 of another hash, and a comment
ScoreboardRuns ==
    LET kinds == {FormatLine(Form, HashB64(0), HexPad(OldAttr.modified, 8),
                             HexPad(OldAttr.size, 4), n) : n \in {P_b, P_d}}
                 \cup {HashB64(1), <<35, 32, 120>>}
    IN  {[cmd |-> "com", pc |-> "start", a |-> a, b |-> b,
          overlap |-> <<>>,
          removalSlice |-> <<>>,       \* the names of the rm commands, in order
          exit |-> -1] : a \in SeqUpTo(kinds, MaxRecords), b \in SeqUpTo(kinds, MaxRecords - 1)}
        \cup
        {[cmd |-> "dup", pc |-> "start", a |-> a,
          multiple |-> <<>>,
          blocks |-> <<>>,             \* the report: per lead name, in order, the names
          exit |-> -1] : a \in SeqUpTo(kinds, MaxRecords)}

\* com up to the count of the overlaps: none is the end with exit code 0
ComOverlap ==
    /\ tool.cmd = "com" /\ tool.pc = "start"
    /\ LET overlap == comOverlap(tool.a, tool.b)
       IN  tool' = IF DOMAIN overlap = {}
                   THEN [tool EXCEPT !.pc = "done", !.exit = 0, !.overlap = overlap]
                   ELSE [tool EXCEPT !.pc = "report", !.overlap = overlap]
    /\ UNCHANGED <<restVars, codec>>

\* the short form of com's report (ssfSelectNameByScoreboard): the names of
\* the records of the second file whose hash overlaps, before bashEscape; a
\* record without " :" is a junk line
ComReport ==
    /\ tool.cmd = "com" /\ tool.pc = "report"
    /\ LET hit == SelectSeq(tool.b, LAMBDA s : /\ Len(s) > 0 /\ s[1] # 35
                                              /\ Slice(s, 0, ShaLen) \in DOMAIN tool.overlap
                                              /\ Index(s, <<32, 58>>) # -1)
       IN  tool' = [tool EXCEPT !.pc = "done", !.exit = 0,
                                !.removalSlice = [i \in 1..Len(hit) |->
                                                     From(hit[i], Index(hit[i], <<32, 58>>) + 2)]]
    /\ UNCHANGED <<restVars, codec>>

\* the scan of dup with the keys met once left on the scoreboard
DupScan_withoutRemove ==
    /\ tool.cmd = "dup" /\ tool.pc = "start"
    /\ tool' = [tool EXCEPT !.pc = "report", !.multiple = ssfScoreboardDupRead(tool.a, <<>>)]
    /\ UNCHANGED <<restVars, codec>>

\* dup up to the count of the duplicated hashes: none is the end with exit
\* code 0
DupScan ==
    /\ tool.cmd = "dup" /\ tool.pc = "start"
    /\ LET multiple == ssfScoreboardRemove(ssfScoreboardDupRead(tool.a, <<>>), FALSE)
       IN  tool' = IF DOMAIN multiple = {}
                   THEN [tool EXCEPT !.pc = "done", !.exit = 0, !.multiple = multiple]
                   ELSE [tool EXCEPT !.pc = "report", !.multiple = multiple]
    /\ UNCHANGED <<restVars, codec>>

\* the report of dup (sshScoreboardReadMapMap and the printing): of the
\* records with a space whose hash is marked, the first of a hash is its lead
\* (first[name] = hash, a later lead of the same name taking the entry) and
\* the others are its subordinates; per lead name in order, the lead and the
\* lines of its hash's report (one empty line when there is no subordinate)
DupReport ==
    /\ tool.cmd = "dup" /\ tool.pc = "report"
    /\ LET recs == SelectSeq(tool.a, LAMBDA s :
                       /\ Len(s) > 0 /\ s[1] # 35 /\ splitSSFLine(s).shab64 # <<>>
                       /\ splitSSFLine(s).shab64 \in DOMAIN tool.multiple
                       /\ tool.multiple[splitSSFLine(s).shab64])
           sha(i) == splitSSFLine(recs[i]).shab64
           name(i) == splitSSFLine(recs[i]).name
           leads == {i \in 1..Len(recs) : \A j \in 1..(i - 1) : sha(j) # sha(i)}
           first(n) == sha(CHOOSE i \in leads : name(i) = n /\ \A j \in leads :
                                                   name(j) = n => j <= i)
           subs(h) == SelectSeq([i \in 1..Len(recs) |-> IF sha(i) = h /\ i \notin leads
                                                        THEN <<name(i)>> ELSE <<>>],
                                LAMBDA x : x # <<>>)
           firstkeys == SortNames({name(i) : i \in leads})
       IN  tool' = [tool EXCEPT !.pc = "done", !.exit = 0,
                       !.blocks = [k \in 1..Len(firstkeys) |->
                           <<firstkeys[k]>> \o
                           (IF subs(first(firstkeys[k])) = <<>> THEN <<<<>>>>
                            ELSE [i \in 1..Len(subs(first(firstkeys[k]))) |->
                                     subs(first(firstkeys[k]))[i][1]])]]
    /\ UNCHANGED <<restVars, codec>>

(***************************************************************************)
(* The top-K table (topper) and its caller                                 *)
(***************************************************************************)
\* the deepest table of the model
MaxDepth == 2
\* the most records offered to a table
MaxAdds == 4

\* topInit: n rows of the default key, none of them used.  (topLinesUsed is
\* the zero value of the global; the commands call topInit once.)
topInit(n, defaultKey) ==
    [topKeys |-> [x \in 1..n |-> defaultKey], topIdens |-> [x \in 1..n |-> <<>>],
     topDepth |-> n, topLinesUsed |-> 0]

RECURSIVE topShift_withoutCopy(_, _, _)
\* the search for the row without the copying of rows
topShift_withoutCopy(t, key, pos) ==
    IF pos = 0 THEN [t |-> t, pos |-> pos]
    ELSE IF key = t.topKeys[pos] \/ Less(key, t.topKeys[pos]) THEN [t |-> t, pos |-> pos]
    ELSE topShift_withoutCopy(t, key, pos - 1)

RECURSIVE topShift(_, _, _)
\* the loop of topAdd from the row pos (counted from 0) upwards: the row is
\* copied one down unless it is the last of the table; the loop ends at the
\* head, or where the row above holds a key that is not smaller
topShift(t, key, pos) ==
    LET t1 == IF pos < t.topDepth - 1
              THEN [t EXCEPT !.topKeys[pos + 2] = t.topKeys[pos + 1],
                             !.topIdens[pos + 2] = t.topIdens[pos + 1]]
              ELSE t
    IN  IF pos = 0 THEN [t |-> t1, pos |-> pos]
        ELSE IF key = t1.topKeys[pos] \/ Less(key, t1.topKeys[pos]) THEN [t |-> t1, pos |-> pos]
        ELSE topShift(t1, key, pos - 1)

\* topAdd: the table after the call and the threshold returned.  (topNames
\* moves with topIdens and is left out.)
topAdd(t, key, id) ==
    LET last == t.topKeys[t.topLinesUsed]
        full == t.topDepth = t.topLinesUsed
        at == IF t.topLinesUsed = 0 THEN [t |-> t, pos |-> 0]
              ELSE IF key = last \/ Less(key, last) THEN [t |-> t, pos |-> t.topLinesUsed]
              ELSE topShift(t, key, t.topLinesUsed - 1)
        t2 == [at.t EXCEPT !.topKeys[at.pos + 1] = key, !.topIdens[at.pos + 1] = id,
                           !.topLinesUsed = IF @ < t.topDepth THEN @ + 1 ELSE @]
    IN  IF t.topLinesUsed # 0 /\ (key = last \/ Less(key, last)) /\ full
        THEN [t |-> t, ret |-> t.topKeys[t.topDepth]]
        ELSE [t |-> t2,
              ret |-> IF t2.topLinesUsed < t2.topDepth THEN <<>> ELSE t2.topKeys[t2.topDepth]]

\* the runs of the table: topInit(K, "") as big calls it, nothing offered yet
TopRuns ==
    {[cmd |-> "top", t |-> topInit(n, <<>>),
      thresh |-> <<>>,                 \* bigFile's thresh
      ret |-> <<>>,                    \* what the last call of topAdd returned
      offered |-> <<>>,                \* the keys of the records met, in order
      added |-> <<>>] :                \* <<key, id>> of the calls of topAdd, in order
        n \in 1..MaxDepth}

\* a call of topAdd with a key of one hexadecimal digit and one of two ids
TopAdd ==
    /\ tool.cmd = "top" /\ Len(tool.offered) < MaxAdds
    /\ \E key \in {<<49>>, <<50>>, <<51>>}, id \in {P_b, P_d} :
          LET r == topAdd(tool.t, key, id)
          IN  tool' = [tool EXCEPT !.t = r.t, !.ret = r.ret,
                                   !.offered = Append(@, key), !.added = Append(@, <<key, id>>)]
    /\ UNCHANGED <<restVars, codec>>

\* a record line met by bigFile: a key not above thresh is passed over, any
\* other is given to topAdd, whose result is the new thresh
BigFileLine ==
    /\ tool.cmd = "top" /\ Len(tool.offered) < MaxAdds
    /\ \E key \in {<<49>>, <<50>>, <<51>>} :
          LET r == topAdd(tool.t, key, P_b)
          IN  tool' = IF key = tool.thresh \/ Less(key, tool.thresh)
                      THEN [tool EXCEPT !.offered = Append(@, key)]
                      ELSE [tool EXCEPT !.t = r.t, !.ret = r.ret, !.thresh = r.ret,
                                        !.offered = Append(@, key),
                                        !.added = Append(@, <<key, P_b>>)]
    /\ UNCHANGED <<restVars, codec>>

(***************************************************************************)
(* The specification of the batch commands                                 *)
(***************************************************************************)
InitTools ==
    /\ UpdIdle
    /\ det = DetIdle
    /\ codec = CodecIdle
    /\ tool \in AnoRuns \cup ConRuns \cup ScoreboardRuns \cup TopRuns

NextTools ==
    \/ AnoNext
    \/ AnoWrite
    \/ ConStart
    \/ ConCollect
    \/ ComOverlap
    \/ ComReport
    \/ DupScan
    \/ DupReport
    \/ TopAdd
    \/ BigFileLine

SpecTools == InitTools /\ [][NextTools]_vars

(***************************************************************************)
(* The sweep of the detector with its walker goroutine                     *)
(***************************************************************************)
\* the trees a sweep runs on: every file holds the content a watch list
\* names (1) or another (0)
SweepTrees ==
    UNION {[S -> {OldAttr, [OldAttr EXCEPT !.content = 1]}] : S \in SUBSET UPaths}

\* det at the start of phase 2: fileQueue is made and the walker is started
InitSweep ==
    /\ scen = [p \in UPaths |-> "absent"]
    /\ junk = "none"
    /\ fs \in SweepTrees
    /\ manifest = <<>>
    /\ num = 1
    /\ cli_overwrite = FALSE
    /\ cli_rehash = FALSE
    /\ wtodo = WalkOrder
    /\ wsent = <<>>
    /\ fileQueue = <<>>
    /\ qclosed = FALSE
    /\ pc = "range"
    /\ mpos = 0
    /\ ssf = EmptySsf
    /\ trip = EmptyTrip
    /\ cnt = ZeroCnt
    /\ out = <<>>
    /\ tags = <<>>
    /\ disk = [slot \in {"old", "temp", "second"} |-> "none"]
    /\ fsops = <<>>
    /\ exitCode = -1
    /\ \E check \in {0, 8080}, asap \in BOOLEAN :
          det = [phase |-> "off", cli_check |-> check, cli_asap |-> asap,
                 watchedFileDetected |-> FALSE, total_files |-> 0]
    /\ codec = CodecIdle
    /\ tool = ToolIdle

\* one pass of "for filerec := range fileQueue": the file is hashed and looked
\* up; a hit sets the flag, and with --asap leaves the loop
SweepRecv ==
    /\ pc = "range" /\ fileQueue # <<>>
    /\ LET filerec == Head(fileQueue)
           is_watched == ShaBin(fs[filerec.filename].content) = ShaBin(1)
           break == is_watched /\ det.cli_asap
       IN  /\ fileQueue' = Tail(fileQueue)
           /\ det' = [det EXCEPT !.watchedFileDetected = @ \/ is_watched,
                                 !.total_files = IF break THEN @ ELSE @ + 1]
           /\ pc' = IF break THEN "swept" ELSE "range"
    /\ UNCHANGED <<tool, codec, scen, fs, junk, manifest, num, cli_overwrite, cli_rehash, wtodo, wsent,
                   qclosed, mpos, ssf, trip, cnt, out, tags, disk, fsops, exitCode>>

\* the range loop ends: the queue is closed and empty
SweepRangeEnd ==
    /\ pc = "range" /\ fileQueue = <<>> /\ qclosed
    /\ pc' = "swept"
    /\ UNCHANGED <<tool, codec, scen, fs, junk, manifest, num, cli_overwrite, cli_rehash, wtodo, wsent,
                   fileQueue, qclosed, mpos, ssf, trip, cnt, out, tags, disk, fsops, exitCode, det>>

\* after the loop: abort(1) on a hit without health endpoint (the process and
\* its walker end), else phase 3 begins and nothing reads fileQueue again
SweepLeave ==
    /\ pc = "swept"
    /\ IF det.watchedFileDetected /\ det.cli_check = 0
       THEN pc' = "done" /\ exitCode' = 1
       ELSE pc' = "phase3" /\ UNCHANGED exitCode
    /\ UNCHANGED <<tool, codec, scen, fs, junk, manifest, num, cli_overwrite, cli_rehash, wtodo, wsent,
                   fileQueue, qclosed, mpos, ssf, trip, cnt, out, tags, disk, fsops, det>>

NextSweep ==
    \/ WalkSend
    \/ WalkClose
    \/ SweepRecv
    \/ SweepRangeEnd
    \/ SweepLeave

SpecSweep == InitSweep /\ [][NextSweep]_vars

(***************************************************************************)
(* Notions the properties of an update run are stated with                 *)
(***************************************************************************)
Done == pc = "done"

\* the writeRecord calls made with this tag
TagsOf(tag) == {i \in 1..Len(tags) : tags[i][1] = tag}

\* the paths of the scenario with this status
Having(st) == {p \in UPaths : scen[p] = st}

Ascending(entries) ==
    \A i, j \in 1..Len(entries) : i < j => Less(entries[i].filename, entries[j].filename)

\* the premises of the merge-join hold: both streams are in byte order, and
\* every name is read back from the manifest as the walker reports it
JoinPremises ==
    /\ Ascending(walkTreeToChannel(OldTree(scen), <<>>))
    /\ Ascending(WalkOrder)
    /\ \A p \in UPaths : scen[p] # "absent" => p = restoreLine(p) /\ p = storeLine(p)

\* the run overwrites Mold in place: one manifest given, with --overwrite
OverwriteMode == num = 1 /\ cli_overwrite

\* at least one record was counted as new, changed or deleted
SomeChange == cnt.nnew + cnt.nchg + cnt.ndel > 0

\* C1: an update against a tree with one new file f, one deleted file d and one
\* file c whose modtime changed makes exactly one N record (for f), one D record
\* (for d) and one C record (for c, flagged T), and counts no other change,
\* wherever f, d and c stand in the path order
C1_OneOfEach ==
    (Done /\ JoinPremises
       /\ Cardinality(Having("new")) = 1 /\ Cardinality(Having("deleted")) = 1
       /\ Cardinality(Having("touched")) = 1 /\ Having("edited") = {})
    => /\ cnt.nnew = 1 /\ cnt.ndel = 1 /\ cnt.nchg = 1
       /\ \E i \in TagsOf("N") : tags[i][2] \in Having("new")
       /\ \E i \in TagsOf("D") : tags[i][2] \in Having("deleted")
       /\ \E i \in TagsOf("C") : tags[i][2] \in Having("touched")
                                  /\ \E k \in 1..Len(tags[i][3]) : tags[i][3][k] = 84

\* C2: when a stream ends before the other, the manifest records left over are
\* counted as deleted and the live entries left over are written as new: every
\* record whose path is not in the live tree gets a D, every live file without
\* a record gets an N
C2_DrainClassifiesBoth ==
    (Done /\ JoinPremises /\ junk = "none")
    => /\ \A p \in Having("deleted") : \E i \in TagsOf("D") : tags[i][2] = p
       /\ \A p \in Having("new") : \E i \in TagsOf("N") : tags[i][2] = p

\* C3: update of M = generate(R) against the unchanged R counts no record as
\* new, changed or deleted, writes exactly the lines of M, and never removes or
\* renames M, whatever the files are called
C3_UnchangedIsIdentity ==
    (Done /\ junk = "none" /\ \A p \in UPaths : scen[p] \in {"absent", "same"})
    => /\ ~SomeChange
       /\ AmWriting => out = manifest
       /\ disk["old"] = "old"
       /\ \A i \in 1..Len(fsops) : fsops[i] \notin {<<"remove", "old">>, <<"rename", Fnw>>}

C5_ExitCodeTellsChange ==
    Done => exitCode = (IF AmWriting /\ SomeChange THEN 1 ELSE 0)

\* C6: at every moment of an overwrite run the original path holds the whole
\* old manifest or the whole new one
C6_OriginalPathAlwaysWhole ==
    OverwriteMode => disk["old"] \in {"old", "new"}

\* C7: the file paths the walker puts on the queue are strictly ascending in
\* the byte order of the whole path
C7_WalkStrictlyAscending ==
    \A i, j \in 1..Len(wsent) : i < j => Less(wsent[i], wsent[j])

(***************************************************************************)
(* Notions the properties of a detector run are stated with                *)
(***************************************************************************)
\* a health endpoint is configured
HealthEndpoint == det.cli_check # 0

\* a WRITE event on a file of watched content waits for the event worker, and
\* the watcher's channels are open
WatchedWritePending ==
    /\ HealthEndpoint /\ ~det.closed
    /\ \E i \in 1..Len(det.events) : det.events[i] = [op |-> "WRITE", ent |-> "watched"]

\* the answers of the health endpoint
AnswerOk == [code |-> 200, body |-> "200 - OK\n"]
AnswerDetected == [code |-> 503, body |-> "503 - Detected\n"]

\* C8: with a health endpoint configured, a WRITE event on a file whose content
\* is on the watch list, once delivered during monitoring, is handled and makes
\* detected true, whatever events are handled before it: the process never
\* ends with such an event still waiting and detected still false
C8_WatchedWriteIsHandled ==
    WatchedWritePending => (det.exitCode = -1 \/ det.watchedFileDetected)

C10_FailSafeRaisesDetected ==
    HealthEndpoint =>
        /\ det.stderr \notin {"Unable to continue monitoring (unknown event",
                              "Encountered monitoring failure"}
        /\ det.worker = "returned" => det.watchedFileDetected

\* the step receives a file that cannot be opened for hashing: from the sweep's
\* queue, or as the path of a WRITE event
UnhashableFileMet ==
    \/ /\ Alive /\ det.phase = "sweep" /\ det.nswept < Len(det.sweep)
       /\ det.sweep[det.nswept + 1].ent = "gone"
       /\ ~(det.cli_nodot /\ DroppedByNoDot(det.sweep[det.nswept + 1].filename))
       /\ det'.nswept = det.nswept + 1
    \/ /\ Alive /\ det.worker = "select" /\ det.events # <<>>
       /\ Head(det.events) = [op |-> "WRITE", ent |-> "gone"]
       /\ det'.events = Tail(det.events)

\* C11: a file that cannot be opened or read for hashing, met by the sweep or
\* by the handling of an event, moves the detector to Detected: the flag is
\* raised or, without a health endpoint, the process ends with exit code 1
C11_UnhashableMeansDetected ==
    [][UnhashableFileMet =>
          (det'.watchedFileDetected \/ (det.cli_check = 0 /\ det'.exitCode = 1))]_vars

\* the step handles a CREATE or RENAME event that names a directory already
\* holding a file of watched content and a subdirectory
PopulatedDirectoryMet ==
    /\ Alive /\ det.worker = "select" /\ det.events # <<>>
    /\ Head(det.events).op \in {"CREATE", "RENAME"}
    /\ Head(det.events).ent = "tree"
    /\ det'.events = Tail(det.events)

\* C12: a CREATE or RENAME event naming a directory makes the detector check
\* the files already inside it: when one of them is a watched file, handling
\* the event finds it (the hit is taken, the flag is raised or the process ends)
C12_NewDirectoryIsChecked ==
    [][PopulatedDirectoryMet =>
          \/ det'.worker = "setflag"
          \/ det'.watchedFileDetected
          \/ det'.exitCode # -1]_vars
\* the messages of the endings that are entries into Detected: a hit during
\* the sweep, a hit during monitoring, a directory that cannot be registered
DetectedEndings ==
    {"One or more watched files found during pre-launch check",
     "File on watchlist detected",
     "Unable to register watcher"}

\* C13: with no health endpoint, every ending of the process that is an entry
\* into Detected (a hit or a failed registration) has exit code 1
C13_DetectedExitsWithOne ==
    (~HealthEndpoint /\ det.stderr \in DetectedEndings) => det.exitCode = 1
\* the position of det in the order of its phases
PhaseRank(phase) ==
    CASE phase = "off" -> 0
      [] phase = "start" -> 0
      [] phase = "ingest" -> 1
      [] phase \in {"sweep", "swept"} -> 2
      [] phase \in {"watch", "register", "blocked"} -> 3
      [] phase = "exited" -> 4

\* C14: the phases follow one another in order and never go back; the event
\* worker starts only when the sweep is over or skipped; the HTTP server starts
\* only when the initial registration of directories has run; and no GET / is
\* answered before that
C14_PhasesInOrder ==
    [][/\ PhaseRank(det'.phase) >= PhaseRank(det.phase)
       /\ (det.phase = "ingest" /\ PhaseRank(det'.phase) = 3) => det.cli_noprecheck
       /\ (det.worker = "none" /\ det'.worker # "none") => det.phase = "watch"
       /\ det'.events # det.events => (det.watching /\ PhaseRank(det.phase) >= 3)
       /\ (~det.server /\ det'.server) =>
              (det.phase = "register" /\ det.dirs = 0 /\ det.worker # "none")
       /\ det'.resp # det.resp => (det.server /\ det.phase = "blocked")]_vars

\* a GET / was answered in a run whose sweep found a watched file and whose
\* registration of directories succeeded
C14_Witness ==
    /\ Alive /\ det.resp # <<>> /\ det.watching
    /\ det.watchDetected # <<>> /\ det.watchDetected[1][1]
\* the files the sweep received and did not drop under no_dot
SweepChecked ==
    {det.sweep[i] : i \in {k \in 1..det.nswept :
                              ~(det.cli_nodot /\ DroppedByNoDot(det.sweep[k].filename))}}

MonitoringRows ==
    SelectSeq(det.watchDetected, LAMBDA row : ~row[1] /\ row[2] = "watched")

\* C16: in disclosure mode the log holds at most one row with
\* during_prescan=false for the watched file created during monitoring,
\* however many CREATE and WRITE events name it
C16_OneRowPerCreatedFile ==
    det.cli_disclose => Len(MonitoringRows) <= 1
\* s is a prefix of t
IsPrefix(s, t) == Len(s) <= Len(t) /\ SubSeq(t, 1, Len(s)) = s

\* C17: a GET /log is answered 404 exactly when the log is empty, else 200
\* with one row per recorded hit in the order recorded; the log only grows at
\* its end; every row of the sweep precedes every row of the monitoring
C17_LogIsAppendOnly ==
    [][/\ IsPrefix(det.watchDetected, det'.watchDetected)
       /\ \A i, j \in 1..Len(det'.watchDetected) :
              (i < j /\ det'.watchDetected[j][1]) => det'.watchDetected[i][1]
       /\ det'.logresp # det.logresp =>
              LET a == det'.logresp[Len(det'.logresp)]
              IN  /\ IsPrefix(det.logresp, det'.logresp)
                  /\ Len(det'.logresp) = Len(det.logresp) + 1
                  /\ a.code = 404 <=> det.watchDetected = <<>>
                  /\ a.code # 404 =>
                         /\ a.code = 200
                         /\ Len(a.body) = Len(det.watchDetected)
                         /\ \A i \in 1..Len(a.body) :
                                /\ a.body[i].fileName = det.watchDetected[i][2]
                                /\ a.body[i].duringPrescan = "true"
                                       <=> det.watchDetected[i][1]]_vars

\* a GET /log was answered with a row of the sweep followed by a row of the
\* monitoring
C17_Witness ==
    /\ det.logresp # <<>>
    /\ LET a == det.logresp[Len(det.logresp)]
       IN  /\ a.code = 200 /\ Len(a.body) = 2
           /\ a.body[1].duringPrescan = "true" /\ a.body[2].duringPrescan = "false"
\* C18: a run that has left the ingest with an empty watch set has ended with
\* a non-zero exit code, having received no file of the sweep, registered no
\* directory, started no event worker and no HTTP server
C18_EmptyWatchSetAborts ==
    (det.phase \notin {"off", "start", "ingest"} /\ det.watchedSHAs = {}) =>
        /\ det.exitCode \notin {-1, 0}
        /\ det.nswept = 0 /\ ~det.watching /\ det.worker = "none"
        /\ ~det.server /\ det.resp = <<>> /\ det.logresp = <<>>

\* the run was ended by the check of the empty watch set
C18_Witness ==
    /\ det.stderr = "Nothing to detect (watch list is empty)"
    /\ det.exitCode = 1 /\ det.watchedSHAs = {}
\* C19: decoding the encoded path gives the path back, byte for byte
C19_PathRoundTrips ==
    codec.pc = "restored" => codec.restored = codec.rec.path

\* C20: a record written at format 5 and read back through nextSHA and
\* allFields is reported as format 5 and has the same hash, modtime, size,
\* annotations and (decoded) path
C20_RecordRoundTrips ==
    codec.pc = "decoded" =>
        /\ codec.reader.format = 5 /\ codec.fields.format = 5 /\ codec.fields.err = ""
        /\ codec.fields.shab64 = codec.rec.shab64
        /\ codec.fields.modtime = codec.rec.modt
        /\ codec.fields.length = codec.rec.size
        /\ codec.fields.annotations = codec.rec.annotations
        /\ restoreLine(codec.fields.name) = codec.rec.path
(***************************************************************************)
(* Notions the properties of the batch commands are stated with            *)
(***************************************************************************)
\* the lines the reader refuses among those the scanner has delivered
BadRead ==
    Cardinality({i \in 1..tool.pos : nextSHA(EmptyReader, <<tool.lines[i]>>).err # ""})

\* the hashes of the valid lines among those the scanner has delivered
HashesRead ==
    {Slice(tool.lines[i], 0, ShaLen) :
        i \in {j \in 1..tool.pos : nextSHA(EmptyReader, <<tool.lines[j]>>).format > 0}}

ConRecords == SelectSeq(tool.first.lines, LAMBDA l : Len(l) > 0 /\ l[1] # 35)

\* the modtimes of the records of the hash h in the input of consolidate
ModtimesOf(h) ==
    {Slice(ConRecords[i], ShaLen, ModEnd) :
        i \in {j \in 1..Len(ConRecords) :
                  Len(ConRecords[j]) >= ModEnd /\ Slice(ConRecords[j], 0, ShaLen) = h}}

\* the lines consolidate has written, wherever it wrote them
ConWritten ==
    IF tool.fnw = "temp" THEN tool.temp.lines
    ELSE IF tool.fnw = "second" THEN tool.second.lines
    ELSE tool.stdout

\* C22: after consolidate at format 2 has run to its end, the value kept for a
\* hash is the smallest of the modtimes of its records that are at least
\* 0x12ceec80 (1980), and the smallest of all its modtimes only when none is.
C22_SuspectModtimeNeverWins ==
    (tool.cmd = "con" /\ tool.pc = "done" /\ tool.exit = 0 /\ tool.form = 2) =>
        \A h \in DOMAIN tool.hits :
            LET valid == {t \in ModtimesOf(h) : ~Less(t, HexPad(315550848, 8))}
                pool  == IF valid # {} THEN valid ELSE ModtimesOf(h)
            IN  pool # {} => (tool.hits[h] \in pool /\ \A t \in pool : ~Less(t, tool.hits[h]))

\* C23: after consolidate has run to its end on a manifest of records of the
\* formats 1 to 5, it has written one line per distinct hash of the input,
\* each line beginning with its hash, in ascending order of the hashes.
C23_OneLinePerDistinctHash ==
    (tool.cmd = "con" /\ tool.pc = "done" /\ tool.exit = 0) =>
        LET hashes == SortNames({Slice(ConRecords[i], 0, ShaLen) : i \in 1..Len(ConRecords)})
        IN  /\ Len(ConWritten) = Len(hashes)
            /\ \A i \in 1..Len(hashes) : Slice(ConWritten[i], 0, ShaLen) = hashes[i]

\* C24: when consolidate has ended, the consolidated records are on stdout
\* for one file name; in the input file itself, with no ".temp" file beside
\* it, for one file name with --overwrite; and in the second file for two file
\* names, whether the second file existed or not.
C24_DocumentedDestination ==
    (tool.cmd = "con" /\ tool.pc = "done") =>
        LET hits == ssfCollectRead(ConRecords, <<>>, tool.form).hits
            keys == SortNames(DOMAIN hits)
            text == [i \in 1..Len(keys) |-> keys[i] \o hits[keys[i]]]
        IN  /\ (tool.num = 1 /\ ~tool.cli_overwrite) => (tool.exit = 0 /\ tool.stdout = text)
            /\ (tool.num = 1 /\ tool.cli_overwrite) =>
                  (tool.exit = 0 /\ tool.first.lines = text /\ ~tool.temp.exists)
            /\ tool.num = 2 =>
                  (tool.exit = 0 /\ tool.second.exists /\ tool.second.lines = text)

\* the hashes of the record lines of a manifest
KeysOf(lines) ==
    {Slice(lines[i], 0, ShaLen) : i \in {j \in 1..Len(lines) : Len(lines[j]) > 0 /\ lines[j][1] # 35}}

\* C25: the overlap compare computes is exactly the set of the hashes that
\* occur in both manifests, every one of them marked, and it is the same when
\* the two manifests change places, whichever of them has fewer records.
C25_OverlapIsIntersection ==
    (tool.cmd = "com" /\ tool.pc # "start") =>
        /\ DOMAIN tool.overlap = KeysOf(tool.a) \cap KeysOf(tool.b)
        /\ \A k \in DOMAIN tool.overlap : tool.overlap[k]
        /\ comOverlap(tool.b, tool.a) = tool.overlap

\* a run over two manifests of different hashes and sizes that overlap
C25_Witness ==
    /\ tool.cmd = "com" /\ tool.pc = "done" /\ DOMAIN tool.overlap # {}
    /\ KeysOf(tool.a) # KeysOf(tool.b)
    /\ ssfRecCount(tool.a) # ssfRecCount(tool.b)

\* C26: after the scan of duplicates the keys of the scoreboard are exactly
\* the hashes that occur on two record lines or more of the manifest, in
\* whatever order the lines come.
C26_DuplicatesAreRepeatedHashes ==
    (tool.cmd = "dup" /\ tool.pc # "start") =>
        DOMAIN tool.multiple =
            {h \in KeysOf(tool.a) :
                Cardinality({i \in 1..Len(tool.a) :
                    Len(tool.a[i]) > 0 /\ tool.a[i][1] # 35 /\ Slice(tool.a[i], 0, ShaLen) = h}) >= 2}

\* a run over a manifest with a hash on two lines and a hash on one
C26_Witness ==
    /\ tool.cmd = "dup" /\ tool.pc = "done" /\ DOMAIN tool.multiple # {}
    /\ DOMAIN tool.multiple # KeysOf(tool.a)

\* C27: when anonymise has run to its end, it has written exactly one line
\* of 43 characters per distinct hash of the input, in strictly ascending
\* byte order; under --no-empty the hash of the empty file, and nothing else,
\* is left out.
C27_SortedDistinctHashes ==
    (tool.cmd = "ano" /\ tool.pc = "done" /\ tool.exit = 0) =>
        /\ tool.pos = Len(tool.lines)
        /\ \A i \in 1..Len(tool.out) : Len(tool.out[i]) = ShaLen
        /\ \A i \in 1..Len(tool.out) : \A j \in (i + 1)..Len(tool.out) :
              Less(tool.out[i], tool.out[j])
        /\ {tool.out[i] : i \in 1..Len(tool.out)} =
              IF tool.cli_noempty THEN HashesRead \ {emptySHAb64} ELSE HashesRead

\* a run under --no-empty that read the empty-file hash among three and
\* wrote the two others
C27_Witness ==
    /\ tool.cmd = "ano" /\ tool.pc = "done" /\ tool.exit = 0 /\ tool.cli_noempty
    /\ emptySHAb64 \in HashesRead /\ Len(tool.out) = 2

\* C28: anonymise asked for the format 4 or 5 ends without having opened a
\* writer or written a line; asked for the format 1, 2 or 3 it writes the
\* records in that format (43, 51 and 55 characters or more per line), when
\* the input holds hashes and no more than 5 invalid lines.
C28_FormatIsObeyed ==
    (tool.cmd = "ano" /\ tool.pc = "done") =>
        /\ tool.cli_format \in {4, 5} => (tool.exit > 0 /\ tool.created = "" /\ tool.out = <<>>)
        /\ (tool.cli_format \in {1, 2, 3} /\ tool.exit = 0) =>
              \A i \in 1..Len(tool.out) :
                  nextSHA(EmptyReader, <<tool.out[i]>>).format = tool.cli_format

RECURSIVE Largest(_, _)
\* the k largest entries of a sequence of keys (all of them when it has
\* fewer), the largest first
Largest(keys, k) ==
    IF k = 0 \/ keys = <<>> THEN <<>>
    ELSE LET i == CHOOSE x \in 1..Len(keys) : \A y \in 1..Len(keys) : ~Less(keys[x], keys[y])
         IN  <<keys[i]>> \o Largest(SubSeq(keys, 1, i - 1) \o SubSeq(keys, i + 1, Len(keys)), k - 1)

\* C29: after any sequence of calls of add and of records a caller passed
\* over for a key not above the threshold add returned, the used rows of a
\* table of depth K are in non-increasing order of key and hold the K largest
\* keys met so far (all of them while fewer than K were met); the last call
\* of add returned the K-th key if K rows are used and "" if fewer are.
C29_TableHoldsTheLargest ==
    tool.cmd = "top" =>
        /\ tool.t.topLinesUsed = Min(tool.t.topDepth, Len(tool.offered))
        /\ SubSeq(tool.t.topKeys, 1, tool.t.topLinesUsed) = Largest(tool.offered, tool.t.topDepth)
        /\ tool.added # <<>> =>
              tool.ret = IF tool.t.topLinesUsed = tool.t.topDepth
                         THEN tool.t.topKeys[tool.t.topDepth] ELSE <<>>

\* a full table of two rows that met a key above its rows and a key the
\* caller passed over
C29_Witness ==
    /\ tool.cmd = "top" /\ tool.t.topDepth = 2 /\ tool.t.topLinesUsed = 2
    /\ Len(tool.added) = 3 /\ Len(tool.offered) = 4
    /\ tool.t.topKeys = <<tool.added[3][1], tool.added[1][1]>>
    /\ Less(tool.added[2][1], tool.added[1][1]) /\ Less(tool.added[1][1], tool.added[3][1])

\* C30: no two used rows of the table hold the same key and the same id.
C30_NoRowTwice ==
    tool.cmd = "top" =>
        \A i \in 1..tool.t.topLinesUsed : \A j \in (i + 1)..tool.t.topLinesUsed :
            ~(tool.t.topKeys[i] = tool.t.topKeys[j] /\ tool.t.topIdens[i] = tool.t.topIdens[j])

\* the paths of the scenario that both streams hold
InBoth == {p \in UPaths : InOld(scen[p]) /\ InLive(scen[p])}

\* C31: when update has ended, every path present in both streams has one
\* record: with --re-hash off and modtime and size as the manifest has them it
\* is U and carries the manifest's hash (the file was not hashed, even if its
\* content changed); in every other case it carries the file's hash and is C
\* with the flags of the fields that differ (T, S, H in this order), or V when
\* none differs; only the C records are counted as changed.
C31_MatchedPathClassified ==
    Done =>
        /\ \A p \in InBoth :
              LET idx == {i \in 1..Len(tags) : tags[i][2] = p}
                  flag == ChangeFlags([modtime |-> HexPad(OldAttr.modified, 8),
                                       length |-> HexPad(OldAttr.size, 4),
                                       shab64 |-> HashB64(OldAttr.content)],
                                      TripOf([filename |-> p, modified |-> fs[p].modified,
                                              size |-> fs[p].size]),
                                      HashB64(fs[p].content))
                  soft == fs[p].modified = OldAttr.modified /\ fs[p].size = OldAttr.size
                          /\ ~cli_rehash
                  line(sha) == FormatLine(Form, sha, HexPad(fs[p].modified, 8),
                                          HexPad(fs[p].size, 4), storeLine(p))
              IN  /\ Cardinality(idx) = 1
                  /\ \A i \in idx :
                        /\ tags[i][1] = IF soft THEN "U" ELSE IF flag # <<>> THEN "C" ELSE "V"
                        /\ tags[i][3] = IF soft THEN <<>> ELSE flag
                  /\ AmWriting =>
                        \E k \in 1..Len(out) :
                            out[k] = line(IF soft THEN HashB64(OldAttr.content)
                                          ELSE HashB64(fs[p].content))
        /\ cnt.nchg = Cardinality(TagsOf("C"))

\* the same for the runs in which both streams are in byte order
C31_WhenStreamsAscend == JoinPremises => C31_MatchedPathClassified

\* the records of the live entries, in the order of the writeRecord calls
LiveTags == SelectSeq(tags, LAMBDA e : e[1] \in {"N", "U", "V", "C"})

C33_SecondPathLeavesMoldAlone ==
    num = 2
    => /\ disk["old"] = "old"
       /\ \A i \in 1..Len(fsops) : fsops[i] \notin {<<"remove", "old">>, <<"rename", "second">>}
       /\ Done => disk["second"] = "new"

\* C34: a live file that cannot be opened for hashing is skipped and the run
\* goes on: update ends with exit code 0 or 1, every file that can be opened
\* has been classified, and every line of the output begins with 43
\* characters of Base64, the hash of the file it records.
C34_UnreadableFileSkipped ==
    Done =>
        /\ exitCode \in {0, 1}
        /\ \A p \in DOMAIN fs :
              ~HashPanics(fs, p) => \E i \in 1..Len(LiveTags) : LiveTags[i][2] = p
        /\ \A k \in 1..Len(out) :
              Len(out[k]) >= ShaLen /\ isBase64(SubSeq(out[k], 1, ShaLen))

\* the paths of the records a manifest's lines hold, as update reads them back
RecordPaths(lines) ==
    LET recs == SelectSeq(lines, LAMBDA s : Len(s) > 0 /\ s[1] # 35 /\ IndexByte(s, 32) >= MinPos)
    IN  [i \in 1..Len(recs) |-> restoreLine(From(recs[i], IndexByte(recs[i], 32) + 2))]

StrictlyAscending(names) ==
    \A i, j \in 1..Len(names) : i < j => Less(names[i], names[j])

\* C40: when the records of Mold and the live entries are each strictly
\* ascending by path, the records of the output update has written are
\* strictly ascending by path.
C40_OutputAscends ==
    (Done /\ StrictlyAscending(RecordPaths(manifest)) /\ StrictlyAscending(wsent))
    => StrictlyAscending(RecordPaths(out))

\* the paths of the entries the engine has received: those it has written a
\* record for, and the one it holds for the comparison to come
Received ==
    [i \in 1..Len(LiveTags) |-> LiveTags[i][2]]
    \o (IF trip.name # <<>> /\ pc \notin {"recv1026", "recv1064", "recv1085"}
        THEN <<trip.name>> ELSE <<>>)

\* the engine has met the end of the stream
StreamEnded == pc \in {"tail1082", "report", "rmtemp", "rmold", "rename", "done"} /\ trip.name = <<>>

\* C38: in every state of an update run the queue holds no more entries than
\* its capacity, the entries received followed by those in the queue are the
\* entries sent, in the order sent, and the engine meets the end of the stream
\* only when the walker has sent its last entry and the engine received it.
C38_QueueHandsOverInOrder ==
    /\ Len(fileQueue) <= QueueCap
    /\ Received \o [i \in 1..Len(fileQueue) |-> fileQueue[i].filename] = wsent
    /\ qclosed => wtodo = <<>>
    /\ StreamEnded => (qclosed /\ fileQueue = <<>> /\ Len(Received) = Len(WalkOrder))

\* the walker waits with the queue full of the entries it sent, one more to send
C38_Witness ==
    /\ Len(fileQueue) = QueueCap /\ wtodo # <<>>
    /\ Len(wsent) = QueueCap /\ ~qclosed
    /\ C38_QueueHandsOverInOrder

\* the sweep has left its range loop and the process runs on in phase 3
SweepStoppedReading == pc = "phase3"

\* C37: the walker of a sweep is never left waiting on a full queue that
\* nothing reads any more: when the sweep has stopped reading, the walker has
\* no entry to send or the queue has room for it.
C37_WalkerNeverLeftBlocked ==
    SweepStoppedReading => (wtodo = <<>> \/ Len(fileQueue) < QueueCap)

\* C36: whenever the HTTP server can answer, a detection log that holds a row
\* comes with the detected flag set, so that no client is shown a row by
\* GET /log and then answered 200 by GET /.
C36_LogImpliesDetected ==
    (Alive /\ det.server /\ det.watchDetected # <<>>) => det.watchedFileDetected

\* C39: during ingest a line of 43 or more characters whose first 43 are not
\* Base64 adds nothing to the watch set and the ingest goes on to the next
\* line; a line adds the 32 bytes its first 43 characters decode to exactly
\* when they are Base64, so that the watch set after ingest is the set of
\* the values decoded from the valid record lines.
C39_BadLineIsSkipped ==
    [][(Alive /\ det.phase = "ingest" /\ det.wl # <<>>)
       => LET s == Head(det.wl)
              valid == /\ Len(s) >= ShaLen /\ s[1] # 35
                       /\ isBase64(SubSeq(s, 1, ShaLen))
          IN  /\ det'.exitCode = -1 /\ det'.phase = "ingest"
              /\ det'.wl = Tail(det.wl)
              /\ det'.watchedSHAs =
                    det.watchedSHAs
                    \cup (IF valid THEN {shaBase64ToShaBinary(SubSeq(s, 1, ShaLen))} ELSE {})]_vars

\* the hand-over is complete and the detector is at rest in monitoring: the
\* directories are registered, no event waits and the worker handles none
MonitoringAtRest ==
    Alive /\ det.phase = "blocked" /\ det.events = <<>> /\ det.worker = "select"

\* C35: a file of watched content created after the sweep has read its
\* directory and before the directory is registered does not escape: once
\* the detector is at rest in monitoring the file has been hashed and checked
\* against the watch set, so the hit has been taken.
C35_NoFileEscapesHandOver ==
    (MonitoringAtRest /\ det.unseen) => det.watchedFileDetected

====
